---- MODULE Spec2Model ----
(***************************************************************************)
(* Model of LinuxTracing::TracerThread (OrbitLinuxTracing/TracerThread.cpp) *)
(* One behaviour is one call of TracerThread::Run together with the caller  *)
(* that sets exit_requested, the kernel that answers perf_event_open/mmap   *)
(* and fills the ring buffers, and the deferred-events worker thread.       *)
(***************************************************************************)
EXTENDS Integers, Sequences, FiniteSets, TLC

\* ------------------------------------------------------------------------
\* Bounds of the model
\* ------------------------------------------------------------------------
MaxCores == 2
MaxFunctions == 2
MaxFaults == 1
MaxRecords == 2
MaxPollRecords == 21
MaxIterations == 2
MaxRuns == 2

\* ------------------------------------------------------------------------
\* Program constants
\* ------------------------------------------------------------------------
ROUND_ROBIN_POLLING_BATCH_SIZE == 5
size_of_uretprobe == 40
pid_ == 100

VARIABLES
  cfg,                    \* configuration of the TracerThread and of the machine
  faults,                 \* failures the kernel may still answer with
  recs,                   \* records the kernel may still produce
  recordTypes,            \* record types the kernel produces in this run
  pc,                     \* position of the thread executing Run
  loopIdx,                \* index of the per-cpu / per-function loop of Run
  exit_requested,         \* *exit_requested
  openFds,                \* kernel: open file descriptors of the process
  closeCount,             \* kernel: close() calls on an fd since it was opened
  mapped,                 \* kernel: fds whose ring buffer is mmap'ed
  redirect,               \* kernel: fd -> fd it was redirected to
  enableOrder,            \* kernel: perf_event_enable calls, in order
  shutdownLog,            \* kernel: disable, munmap and close calls of the shutdown
  tracing_fds_,
  ring_buffers_,
  uprobes_fds_,
  uprobes_ids_to_function_,
  gpu_tracing_fds_,
  gpu_event_processor_,
  deferred_events_,
  stop_deferred_thread_,
  stats_,
  windowElapsed,          \* event_count_begin_ns + window < MonotonicTimestampNs()
  open_errors,            \* perf_event_open_errors, uprobes_..., gpu_... of Run
  uprobes_ring_buffer_fds_per_cpu,
  last_iteration_saw_events,
  rbIdx,                  \* position of the for loop over ring_buffers_
  read_from_this_buffer,
  wpc,                    \* position of the deferred-events thread
  should_exit,
  events,                 \* local "events" of ProcessDeferredEvents
  correlator,             \* uprobes_event_processor_
  listener,               \* calls received by listener_, the last one made
                          \* by a record handler
  probeLog,               \* history: what the probe loop did per function
  gpuLog,                 \* history: what OpenGpuTracepoints did
  pollLog,                \* history: records read per ring buffer, iterations,
                          \* the record just handled, PushEvent calls
  deferLog,               \* history: events passed to DeferEvent
  fault,                  \* history: crashes and undefined behaviour executed
  runs                    \* history: what every Run that has returned left in
                          \* the members of the TracerThread and in the kernel

kernelVars == <<openFds, closeCount, mapped, redirect, enableOrder, shutdownLog>>
memberVars == <<tracing_fds_, ring_buffers_, uprobes_fds_, uprobes_ids_to_function_,
                gpu_tracing_fds_>>
openLocals == <<open_errors, uprobes_ring_buffer_fds_per_cpu, probeLog, gpuLog>>
loopLocals == <<last_iteration_saw_events, rbIdx, read_from_this_buffer, pollLog>>
workerVars == <<wpc, should_exit, events>>
envVars == <<cfg, recordTypes, runs>>

vars == <<cfg, faults, recs, recordTypes, pc, loopIdx, exit_requested, openFds,
          closeCount, mapped, redirect, enableOrder, shutdownLog, tracing_fds_,
          ring_buffers_, uprobes_fds_, uprobes_ids_to_function_, gpu_tracing_fds_,
          gpu_event_processor_, deferred_events_, stop_deferred_thread_, stats_,
          windowElapsed, open_errors, uprobes_ring_buffer_fds_per_cpu,
          last_iteration_saw_events, rbIdx, read_from_this_buffer, wpc,
          should_exit, events, correlator, listener, probeLog, gpuLog, pollLog,
          deferLog, fault, runs>>

\* ------------------------------------------------------------------------
\* Helpers
\* ------------------------------------------------------------------------
Range(s) == {s[i] : i \in 1..Len(s)}

Image(f) == {f[x] : x \in DOMAIN f}

NoDuplicates(s) == \A i, j \in 1..Len(s) : i # j => s[i] # s[j]

IndexOf(s, x) == CHOOSE i \in 1..Len(s) : s[i] = x

Perms(n) == {p \in [1..n -> 1..n] : \A i, j \in 1..n : i # j => p[i] # p[j]}

RECURSIVE SumOver(_, _)
SumOver(f, D) ==
  IF D = {} THEN 0
  ELSE LET x == CHOOSE y \in D : TRUE IN f[x] + SumOver(f, D \ {x})

RECURSIVE AscendingSeq(_)
AscendingSeq(S) ==
  IF S = {} THEN <<>>
  ELSE LET m == CHOOSE x \in S : \A y \in S : x <= y
       IN <<m>> \o AscendingSeq(S \ {m})

\* File descriptor numbers: 0, 1, 2 are taken; the kernel hands out the lowest
\* free number, so the number of a closed fd is used again by a later open.
FdUniverse == 3..(3 + 7 * (MaxCores + 1) + 2 * (MaxCores + 1) * (MaxFunctions + 1))

LowestFreeFd(open) == CHOOSE n \in FdUniverse \ open : \A m \in FdUniverse \ open : n <= m

RECURSIVE AllocFds(_, _)
AllocFds(open, k) ==
  IF k = 0 THEN <<>>
  ELSE LET fd == LowestFreeFd(open) IN <<fd>> \o AllocFds(open \cup {fd}, k - 1)

\* close(fd) for every fd of the sequence, in order
RECURSIVE CloseAll(_, _)
CloseAll(kern, fds) ==
  IF fds = <<>> THEN kern
  ELSE CloseAll([open |-> kern.open \ {Head(fds)},
                 count |-> [kern.count EXCEPT ![Head(fds)] = @ + 1]], Tail(fds))

CloseFileDescriptors(kern, fds) == CloseAll(kern, fds)

\* ioctl(PERF_EVENT_IOC_ID): the kernel's id of the event behind an open fd;
\* distinct for distinct open events.
perf_event_get_id(fd) == 1000 + fd

\* ------------------------------------------------------------------------
\* Configuration
\* ------------------------------------------------------------------------
all_cpus == AscendingSeq(0..(cfg.num_cores - 1))

cpuset_cpus == IF cfg.cpuset = {} THEN all_cpus ELSE AscendingSeq(cfg.cpuset)

instrumented_functions_ == 1..cfg.num_functions

Configs(coreCounts) ==
  {c \in [num_cores : coreCounts,
          cpuset : SUBSET (0..(MaxCores - 1)),
          num_functions : 1..MaxFunctions,
          trace_context_switches_ : BOOLEAN,
          trace_instrumented_functions_ : BOOLEAN,
          trace_callstacks_ : BOOLEAN,
          trace_gpu_driver_events : BOOLEAN] :
     c.cpuset \subseteq 0..(c.num_cores - 1)}

EmptyStats == [sched_switch_count |-> 0, sample_count |-> 0, uprobes_count |-> 0,
               gpu_events_count |-> 0, lost_count |-> 0,
               lost_count_per_buffer |-> <<>>]

InitWith(configs, faultBudget, recordBudget, types, stopRequested) ==
  /\ cfg \in configs
  /\ faults = faultBudget
  /\ recs = recordBudget
  /\ recordTypes = types
  /\ pc = "Reset"
  /\ loopIdx = 1
  /\ exit_requested \in stopRequested
  /\ openFds = {}
  /\ closeCount = [fd \in FdUniverse |-> 0]
  /\ mapped = {}
  /\ redirect = <<>>
  /\ enableOrder = <<>>
  /\ shutdownLog = <<>>
  /\ tracing_fds_ = <<>>
  /\ ring_buffers_ = <<>>
  /\ uprobes_fds_ = {}
  /\ uprobes_ids_to_function_ = <<>>
  /\ gpu_tracing_fds_ = {}
  /\ gpu_event_processor_ = "null"
  /\ deferred_events_ = <<>>
  /\ stop_deferred_thread_ = FALSE
  /\ stats_ = EmptyStats
  /\ windowElapsed = FALSE
  /\ open_errors = [perf |-> FALSE, uprobes |-> FALSE, gpu |-> FALSE]
  /\ uprobes_ring_buffer_fds_per_cpu = <<>>
  /\ last_iteration_saw_events = FALSE
  /\ rbIdx = 1
  /\ read_from_this_buffer = 0
  /\ wpc = "not_started"
  /\ should_exit = FALSE
  /\ events = <<>>
  /\ correlator = [constructed |-> FALSE, added |-> <<>>, pending |-> <<>>]
  /\ listener = [calls |-> 0, after_stop |-> FALSE, last |-> <<>>]
  /\ probeLog = <<>>
  /\ gpuLog = [called |-> FALSE, ok |-> FALSE, opened |-> <<>>]
  /\ pollLog = [iterations |-> 0, interrupted |-> FALSE, read |-> <<>>,
                consumed |-> <<>>, dry |-> {}, last |-> <<>>, pushed |-> 0]
  /\ deferLog = <<>>
  /\ fault = {}
  /\ runs = <<>>


\* ------------------------------------------------------------------------
\* Kernel answers
\* ------------------------------------------------------------------------
\* What one perf_event_open followed by the mmap of its ring buffer can give.
OpenOutcomes == IF faults > 0 THEN {"ok", "open_fails", "mmap_fails"} ELSE {"ok"}

\* PerfEventRingBuffer{fd, size_kb, name}: IsOpen() iff the fd is valid and the
\* mmap succeeded; the object only maps and unmaps, it never closes the fd.
PerfEventRingBuffer(fd, mmap_ok, name) ==
  [fd |-> fd, open |-> (fd >= 0 /\ mmap_ok), name |-> name]

\* the kernel's table after the fds of the sequence were opened
Opened(fds) ==
  [open |-> openFds \cup Range(fds),
   count |-> [fd \in FdUniverse |-> IF fd \in Range(fds) THEN 0 ELSE closeCount[fd]]]

ListenerCall(l, n) ==
  [l EXCEPT !.calls = @ + n, !.after_stop = @ \/ (n > 0 /\ exit_requested)]

\* listener_->OnContextSwitchOut(ContextSwitchOut(tid, cpu, time)) and the like
OnContextSwitchOut(l, tid, cpu, time) ==
  [ListenerCall(l, 1) EXCEPT !.last = <<"OnContextSwitchOut", tid, cpu, time>>]

OnContextSwitchIn(l, tid, cpu, time) ==
  [ListenerCall(l, 1) EXCEPT !.last = <<"OnContextSwitchIn", tid, cpu, time>>]

OnTid(l, tid) == [ListenerCall(l, 1) EXCEPT !.last = <<"OnTid", tid>>]

\* ------------------------------------------------------------------------
\* TracerThread::Run, opening phase
\* ------------------------------------------------------------------------
\* stop_deferred_thread_ keeps its value
Reset_KeepsStopFlag ==
  /\ tracing_fds_' = <<>>
  /\ ring_buffers_' = <<>>
  /\ uprobes_fds_' = {}
  /\ uprobes_ids_to_function_' = <<>>
  /\ gpu_tracing_fds_' = {}
  /\ deferred_events_' = <<>>
  /\ UNCHANGED stop_deferred_thread_

Reset ==
  /\ tracing_fds_' = <<>>
  /\ ring_buffers_' = <<>>
  /\ uprobes_fds_' = {}
  /\ uprobes_ids_to_function_' = <<>>
  /\ gpu_tracing_fds_' = {}
  /\ deferred_events_' = <<>>
  /\ stop_deferred_thread_' = FALSE

RunReset ==
  /\ pc = "Reset"
  /\ Reset
  /\ open_errors' = [perf |-> FALSE, uprobes |-> FALSE, gpu |-> FALSE]
  /\ pc' = "context_switch"
  /\ loopIdx' = 1
  /\ UNCHANGED <<envVars, faults, recs, exit_requested, kernelVars,
                 gpu_event_processor_, stats_, windowElapsed,
                 uprobes_ring_buffer_fds_per_cpu, probeLog, gpuLog, loopLocals,
                 workerVars, correlator, listener, deferLog, fault>>

\* One iteration of the three loops that open one source per cpu and give it
\* a ring buffer of its own.
OpenPerCpuSource(kind, cpus, requested, nextPc) ==
  /\ pc = kind
  /\ IF requested /\ loopIdx <= Len(cpus)
     THEN \E outcome \in OpenOutcomes :
            LET fd == IF outcome = "open_fails" THEN -1 ELSE LowestFreeFd(openFds)
                kern == Opened(IF fd = -1 THEN <<>> ELSE <<fd>>)
                ring_buffer == PerfEventRingBuffer(fd, outcome = "ok",
                                                   <<kind, cpus[loopIdx]>>)
            IN /\ openFds' = kern.open
               /\ closeCount' = kern.count
               /\ IF ring_buffer.open
                  THEN /\ tracing_fds_' = Append(tracing_fds_, fd)
                       /\ ring_buffers_' = Append(ring_buffers_, ring_buffer)
                       /\ mapped' = mapped \cup {fd}
                       /\ UNCHANGED <<open_errors, faults>>
                  ELSE /\ open_errors' = [open_errors EXCEPT !.perf = TRUE]
                       /\ faults' = faults - 1
                       /\ UNCHANGED <<tracing_fds_, ring_buffers_, mapped>>
               /\ loopIdx' = loopIdx + 1
               /\ pc' = pc
     ELSE /\ pc' = nextPc
          /\ loopIdx' = 1
          /\ UNCHANGED <<openFds, closeCount, tracing_fds_, ring_buffers_, mapped,
                         open_errors, faults>>
  /\ UNCHANGED <<envVars, recs, exit_requested, redirect, enableOrder, shutdownLog,
                 uprobes_fds_, uprobes_ids_to_function_, gpu_tracing_fds_,
                 gpu_event_processor_, deferred_events_, stop_deferred_thread_,
                 stats_, windowElapsed, uprobes_ring_buffer_fds_per_cpu, probeLog,
                 gpuLog, loopLocals, workerVars, correlator, listener, deferLog,
                 fault>>

OpenContextSwitch ==
  OpenPerCpuSource("context_switch", all_cpus, cfg.trace_context_switches_,
                   "init_processors")

\* GetTracepointId gives -1 when the id of the tracepoint cannot be read.
InitGpuTracepointEventProcessor(ids) == \A i \in 1..3 : ids[i] # -1

InitProcessors ==
  /\ pc = "init_processors"
  /\ \E ids \in [1..3 -> {-1, 7}] :
       /\ Cardinality({i \in 1..3 : ids[i] = -1}) <= (IF faults > 0 THEN 1 ELSE 0)
       /\ faults' = IF \E i \in 1..3 : ids[i] = -1 THEN faults - 1 ELSE faults
       /\ gpu_event_processor_' =
            IF InitGpuTracepointEventProcessor(ids) THEN "constructed"
            ELSE gpu_event_processor_
  /\ correlator' = [constructed |-> TRUE, added |-> <<>>, pending |-> <<>>]
  /\ pc' = "probes"
  /\ loopIdx' = 1
  /\ UNCHANGED <<envVars, recs, exit_requested, kernelVars, memberVars,
                 deferred_events_, stop_deferred_thread_, stats_, windowElapsed,
                 openLocals, loopLocals, workerVars, listener, deferLog, fault>>


\* ioctl(PERF_EVENT_IOC_SET_OUTPUT) for every fd of the set
perf_event_redirect(redirects, fds, ring_buffer_fd) ==
  [fd \in fds |-> ring_buffer_fd] @@ redirects

\* only the ids of the uprobes are recorded
StreamIds_UprobesOnly(uprobes, uretprobes) ==
  {perf_event_get_id(fd) : fd \in Image(uprobes)}

\* Lines 224-232: the stream ids recorded for one function, those of its
\* uprobes fds and those of its uretprobes fds.
StreamIds(uprobes, uretprobes) ==
  {perf_event_get_id(fd) : fd \in Image(uprobes)}
    \cup {perf_event_get_id(fd) : fd \in Image(uretprobes)}

\* every function creates a ring buffer for its own uprobes fd
RingBufferFd_AlwaysOwn(cpu, ring_buffer_fds_per_cpu, function_uprobes_fds_per_cpu) ==
  function_uprobes_fds_per_cpu[cpu]

\* Lines 239-250: the fd of the ring buffer the probes of a cpu write to: the
\* one already created for the cpu, else the uprobes fd of this function.
RingBufferFd(cpu, ring_buffer_fds_per_cpu, function_uprobes_fds_per_cpu) ==
  IF cpu \in DOMAIN ring_buffer_fds_per_cpu
  THEN ring_buffer_fds_per_cpu[cpu]
  ELSE function_uprobes_fds_per_cpu[cpu]

\* Lines 236-260: the redirections made for one function, cpu by cpu. The fd
\* that owns the new ring buffer is not redirected.
RECURSIVE RedirectProbes(_, _, _, _, _)
RedirectProbes(redirects, cpus, uprobes, uretprobes, ring_buffer_fds_per_cpu) ==
  IF cpus = <<>> THEN redirects
  ELSE LET cpu == Head(cpus)
           ring_buffer_fd == RingBufferFd(cpu, ring_buffer_fds_per_cpu, uprobes)
           fds == IF cpu \in DOMAIN ring_buffer_fds_per_cpu
                  THEN {uprobes[cpu], uretprobes[cpu]}
                  ELSE {uretprobes[cpu]}
       IN RedirectProbes(perf_event_redirect(redirects, fds, ring_buffer_fd),
                         Tail(cpus), uprobes, uretprobes, ring_buffer_fds_per_cpu)

\* the uprobes pushed before the uretprobes
CommitOrder_EntryFirst(uprobes, uretprobes, ordU, ordR) ==
  [i \in 1..Len(ordU) |-> uprobes[cpuset_cpus[ordU[i]]]]
    \o [i \in 1..Len(ordR) |-> uretprobes[cpuset_cpus[ordR[i]]]]

\* both loops push the uprobes fd
CommitOrder_UprobesTwice(uprobes, uretprobes, ordU, ordR) ==
  [i \in 1..Len(ordR) |-> uprobes[cpuset_cpus[ordR[i]]]]
    \o [i \in 1..Len(ordU) |-> uprobes[cpuset_cpus[ordU[i]]]]

\* Order in which the fds of one function enter tracing_fds_ (lines 217-222):
\* the uretprobes of all cpus, then the uprobes of all cpus. The two
\* flat_hash_maps are iterated in an order of their own (ordR, ordU).
CommitOrder(uprobes, uretprobes, ordU, ordR) ==
  [i \in 1..Len(ordR) |-> uretprobes[cpuset_cpus[ordR[i]]]]
    \o [i \in 1..Len(ordU) |-> uprobes[cpuset_cpus[ordU[i]]]]

\* only the uprobes fds are closed
RollbackFds_UprobesOnly(uprobes, uretprobes) ==
  [i \in 1..Cardinality(DOMAIN uprobes) |-> uprobes[cpuset_cpus[i]]]

\* Lines 199-211: what is closed when an open of the function failed.
RollbackFds(uprobes, uretprobes) ==
  [i \in 1..Cardinality(DOMAIN uprobes) |-> uprobes[cpuset_cpus[i]]]
    \o [i \in 1..Cardinality(DOMAIN uretprobes) |-> uretprobes[cpuset_cpus[i]]]

\* One iteration of the loop over instrumented_functions_ (lines 176-261).
\* failAt = 0: every open succeeds; failAt = 2i-1 (2i): the uprobes
\* (uretprobes) open on the i-th cpu of the cpuset fails.
OpenProbesForFunction ==
  /\ pc = "probes"
  /\ IF cfg.trace_instrumented_functions_ /\ loopIdx <= cfg.num_functions
     THEN LET n == Len(cpuset_cpus) IN
          \E failAt \in 0..(2 * n), ordU \in Perms(n), ordR \in Perms(n),
             mmap_ok \in [Range(cpuset_cpus) -> BOOLEAN] :
            LET opens == IF failAt = 0 THEN 2 * n ELSE failAt - 1
                fds == AllocFds(openFds, opens)
                function_uprobes_fds_per_cpu ==
                  [c \in {cpuset_cpus[i] : i \in {j \in 1..n : 2 * j - 1 <= opens}}
                     |-> fds[2 * IndexOf(cpuset_cpus, c) - 1]]
                function_uretprobes_fds_per_cpu ==
                  [c \in {cpuset_cpus[i] : i \in {j \in 1..n : 2 * j <= opens}}
                     |-> fds[2 * IndexOf(cpuset_cpus, c)]]
                newCpus == Range(cpuset_cpus) \ DOMAIN uprobes_ring_buffer_fds_per_cpu
                oldCpus == Range(cpuset_cpus) \cap DOMAIN uprobes_ring_buffer_fds_per_cpu
                unmappable == {c \in Range(cpuset_cpus) : ~mmap_ok[c]}
            IN
            /\ failAt > 0 => faults > 0 /\ unmappable = {} /\ ordU = ordR
                             /\ \A i \in 1..n : ordU[i] = i
            /\ failAt = 0 => unmappable \subseteq newCpus
                             /\ Cardinality(unmappable) <= faults
            /\ IF failAt > 0
               THEN LET kern == CloseAll(Opened(fds),
                                         RollbackFds(function_uprobes_fds_per_cpu,
                                                     function_uretprobes_fds_per_cpu))
                    IN /\ openFds' = kern.open
                       /\ closeCount' = kern.count
                       /\ open_errors' = [open_errors EXCEPT !.perf = TRUE,
                                                             !.uprobes = TRUE]
                       /\ faults' = faults - 1
                       /\ probeLog' = Append(probeLog,
                            [committed |-> FALSE,
                             uprobes |-> function_uprobes_fds_per_cpu,
                             uretprobes |-> function_uretprobes_fds_per_cpu])
                       /\ UNCHANGED <<tracing_fds_, ring_buffers_, uprobes_fds_,
                                      uprobes_ids_to_function_, mapped, redirect,
                                      uprobes_ring_buffer_fds_per_cpu>>
               ELSE /\ openFds' = Opened(fds).open
                    /\ closeCount' = Opened(fds).count
                    /\ tracing_fds_' = tracing_fds_ \o
                         CommitOrder(function_uprobes_fds_per_cpu,
                                     function_uretprobes_fds_per_cpu, ordU, ordR)
                    /\ uprobes_ids_to_function_' = uprobes_ids_to_function_ @@
                         [id \in StreamIds(function_uprobes_fds_per_cpu,
                                           function_uretprobes_fds_per_cpu) |-> loopIdx]
                    /\ ring_buffers_' = ring_buffers_ \o
                         [i \in 1..Cardinality(newCpus) |->
                            LET c == SelectSeq(cpuset_cpus, LAMBDA x : x \in newCpus)[i]
                            IN PerfEventRingBuffer(function_uprobes_fds_per_cpu[c],
                                                   mmap_ok[c], <<"uprobes_uretprobes", c>>)]
                    /\ uprobes_ring_buffer_fds_per_cpu' =
                         uprobes_ring_buffer_fds_per_cpu @@
                           [c \in newCpus |-> function_uprobes_fds_per_cpu[c]]
                    /\ uprobes_fds_' = uprobes_fds_ \cup
                         {function_uprobes_fds_per_cpu[c] : c \in newCpus}
                    /\ mapped' = mapped \cup
                         {function_uprobes_fds_per_cpu[c] : c \in newCpus \ unmappable}
                    /\ redirect' =
                         RedirectProbes(redirect, cpuset_cpus,
                                        function_uprobes_fds_per_cpu,
                                        function_uretprobes_fds_per_cpu,
                                        uprobes_ring_buffer_fds_per_cpu)
                    /\ faults' = faults - Cardinality(unmappable)
                    /\ probeLog' = Append(probeLog,
                         [committed |-> TRUE,
                          uprobes |-> function_uprobes_fds_per_cpu,
                          uretprobes |-> function_uretprobes_fds_per_cpu])
                    /\ UNCHANGED open_errors
            /\ loopIdx' = loopIdx + 1
            /\ pc' = pc
     ELSE /\ pc' = "mmap_task"
          /\ loopIdx' = 1
          /\ UNCHANGED <<openFds, closeCount, mapped, redirect, tracing_fds_,
                         ring_buffers_, uprobes_fds_, uprobes_ids_to_function_,
                         open_errors, uprobes_ring_buffer_fds_per_cpu, probeLog,
                         faults>>
  /\ UNCHANGED <<envVars, recs, exit_requested, enableOrder, shutdownLog,
                 gpu_tracing_fds_, gpu_event_processor_, deferred_events_,
                 stop_deferred_thread_, stats_, windowElapsed, gpuLog, loopLocals,
                 workerVars, correlator, listener, deferLog, fault>>

OpenMmapTask ==
  OpenPerCpuSource("mmap_task", cpuset_cpus, TRUE, "sampling")

OpenSampling ==
  OpenPerCpuSource("sampling", cpuset_cpus, cfg.trace_callstacks_, "gpu")

\* The three tracepoints opened per cpu, in the order of lines 68-82.
GpuTracepoints == <<"amdgpu_cs_ioctl", "amdgpu_sched_run_job", "dma_fence_signaled">>

\* Lines 87-93: the fds and ring buffers OpenGpuTracepoints commits to the
\* members once every tracepoint of every cpu is open and mapped.
GpuCommit(fds, cpus) ==
  [gpu_fds |-> gpu_tracing_fds_ \cup Range(fds),
   tracing_fds |-> tracing_fds_ \o fds,
   ring_buffers |-> ring_buffers_ \o
      [t \in 1..Len(fds) |->
         PerfEventRingBuffer(fds[t], TRUE,
                             <<GpuTracepoints[((t - 1) % 3) + 1], cpus[((t - 1) \div 3) + 1]>>)]]

\* the fd enters the local gpu_tracing_fds only after its ring buffer is mapped
OpenGpuTracepoints_LateTracking(cpus, failAt) ==
  LET total == 3 * Len(cpus)
      opens == IF failAt = 0 THEN total ELSE failAt \div 2
      fds == AllocFds(openFds, opens)
      tracked == SubSeq(fds, 1, IF failAt = 0 THEN total ELSE (failAt - 1) \div 2)
  IN IF failAt = 0
     THEN LET commit == GpuCommit(fds, cpus)
          IN /\ openFds' = Opened(fds).open
             /\ closeCount' = Opened(fds).count
             /\ mapped' = mapped \cup Range(fds)
             /\ gpu_tracing_fds_' = commit.gpu_fds
             /\ tracing_fds_' = commit.tracing_fds
             /\ ring_buffers_' = commit.ring_buffers
             /\ gpuLog' = [called |-> TRUE, ok |-> TRUE, opened |-> fds]
     ELSE LET kern == CloseFileDescriptors(Opened(fds), tracked)
          IN /\ openFds' = kern.open
             /\ closeCount' = kern.count
             /\ gpuLog' = [called |-> TRUE, ok |-> FALSE, opened |-> fds]
             /\ UNCHANGED <<mapped, gpu_tracing_fds_, tracing_fds_, ring_buffers_>>

\* every fd is committed to the members as soon as it is open
OpenGpuTracepoints_NoStaging(cpus, failAt) ==
  LET total == 3 * Len(cpus)
      opens == IF failAt = 0 THEN total ELSE failAt \div 2
      fds == AllocFds(openFds, opens)
      commit == GpuCommit(fds, cpus)
      kern == IF failAt = 0 THEN Opened(fds)
              ELSE CloseFileDescriptors(Opened(fds), fds)
  IN /\ openFds' = kern.open
     /\ closeCount' = kern.count
     /\ mapped' = IF failAt = 0 THEN mapped \cup Range(fds) ELSE mapped
     /\ gpu_tracing_fds_' = commit.gpu_fds
     /\ tracing_fds_' = commit.tracing_fds
     /\ ring_buffers_' = IF failAt = 0 THEN commit.ring_buffers ELSE ring_buffers_
     /\ gpuLog' = [called |-> TRUE, ok |-> failAt = 0, opened |-> fds]

\* OpenGpuTracepoints(cpus). failAt = 0: everything succeeds; failAt = 2t-1:
\* the open of the t-th tracepoint fails; failAt = 2t: the mmap of its ring
\* buffer fails (its fd is already in the local gpu_tracing_fds).
OpenGpuTracepoints(cpus, failAt) ==
  LET total == 3 * Len(cpus)
      opens == IF failAt = 0 THEN total ELSE failAt \div 2
      fds == AllocFds(openFds, opens)
  IN IF failAt = 0
     THEN LET commit == GpuCommit(fds, cpus)
          IN /\ openFds' = Opened(fds).open
             /\ closeCount' = Opened(fds).count
             /\ mapped' = mapped \cup Range(fds)
             /\ gpu_tracing_fds_' = commit.gpu_fds
             /\ tracing_fds_' = commit.tracing_fds
             /\ ring_buffers_' = commit.ring_buffers
             /\ gpuLog' = [called |-> TRUE, ok |-> TRUE, opened |-> fds]
     ELSE LET kern == CloseFileDescriptors(Opened(fds), fds)
          IN /\ openFds' = kern.open
             /\ closeCount' = kern.count
             /\ gpuLog' = [called |-> TRUE, ok |-> FALSE, opened |-> fds]
             /\ UNCHANGED <<mapped, gpu_tracing_fds_, tracing_fds_, ring_buffers_>>

\* Lines 292-300.
OpenGpu ==
  /\ pc = "gpu"
  /\ IF cfg.trace_gpu_driver_events
     THEN \E failAt \in 0..(IF faults > 0 THEN 6 * Len(all_cpus) ELSE 0) :
            /\ OpenGpuTracepoints(all_cpus, failAt)
            /\ open_errors' = [open_errors EXCEPT !.gpu = (failAt # 0)]
            /\ faults' = IF failAt # 0 THEN faults - 1 ELSE faults
     ELSE UNCHANGED <<openFds, closeCount, mapped, gpu_tracing_fds_, tracing_fds_,
                      ring_buffers_, gpuLog, open_errors, faults>>
  /\ pc' = "enable"
  /\ UNCHANGED <<envVars, recs, loopIdx, exit_requested, redirect, enableOrder,
                 shutdownLog, uprobes_fds_, uprobes_ids_to_function_,
                 gpu_event_processor_, deferred_events_, stop_deferred_thread_,
                 stats_, windowElapsed, uprobes_ring_buffer_fds_per_cpu, probeLog,
                 loopLocals, workerVars, correlator, listener, deferLog, fault>>

\* Lines 310-313: perf_event_enable on every fd of tracing_fds_, in order.
EnableAll ==
  /\ pc = "enable"
  /\ enableOrder' = tracing_fds_
  /\ pc' = "start_threads"
  /\ UNCHANGED <<envVars, faults, recs, loopIdx, exit_requested, openFds, closeCount,
                 mapped, redirect, shutdownLog, memberVars, gpu_event_processor_,
                 deferred_events_, stop_deferred_thread_, stats_, windowElapsed,
                 openLocals, loopLocals, workerVars, correlator, listener, deferLog,
                 fault>>

\* EventStats::Reset(): every counter and the per-buffer map are cleared and
\* the window begins now.
StatsReset == EmptyStats

\* Lines 315-324: OnTid for the threads of the process (one here), the stats
\* reset and the start of the deferred-events thread.
StartThreads ==
  /\ pc = "start_threads"
  /\ listener' = OnTid(listener, pid_)
  /\ stats_' = StatsReset
  /\ windowElapsed' = FALSE
  /\ last_iteration_saw_events' = FALSE
  /\ wpc' = "read_flag"
  /\ pc' = "while"
  /\ UNCHANGED <<envVars, faults, recs, loopIdx, exit_requested, kernelVars,
                 memberVars, gpu_event_processor_, deferred_events_,
                 stop_deferred_thread_, openLocals, rbIdx, read_from_this_buffer,
                 pollLog, should_exit, events, correlator, deferLog, fault>>


\* ------------------------------------------------------------------------
\* Records the kernel writes to a ring buffer
\* ------------------------------------------------------------------------
RecordTypes == {"SWITCH", "SWITCH_CPU_WIDE", "FORK", "EXIT", "MMAP", "SAMPLE",
                "LOST", "OTHER"}

OtherPid == pid_ + 100

PlainRecord(type) ==
  [type |-> type, tid |-> pid_, cpu |-> 0, time |-> 10, switch_out |-> FALSE,
   pid |-> pid_, size |-> size_of_uretprobe + 8, num_lost |-> 0, stream_id |-> 0]

\* ids of the events whose output goes to the ring buffer of root fd
StreamsInto(fd) ==
  {perf_event_get_id(fd)} \cup
  {perf_event_get_id(g) : g \in {h \in DOMAIN redirect : redirect[h] = fd}}

RecordsOfType(type, fd) ==
  CASE type = "SWITCH" ->
         {[PlainRecord(type) EXCEPT !.switch_out = o] : o \in BOOLEAN}
    [] type = "SWITCH_CPU_WIDE" ->
         {[PlainRecord(type) EXCEPT !.switch_out = o, !.tid = t, !.cpu = at[1],
                                    !.time = at[2]] :
            o \in BOOLEAN, t \in {0, pid_}, at \in {<<0, 10>>, <<1, 20>>}}
    [] type \in {"FORK", "EXIT", "MMAP"} ->
         {[PlainRecord(type) EXCEPT !.pid = p] : p \in {pid_, OtherPid}}
    [] type = "SAMPLE" ->
         {[PlainRecord(type) EXCEPT !.pid = p, !.size = z, !.stream_id = i] :
            p \in {pid_, OtherPid},
            z \in {size_of_uretprobe, size_of_uretprobe + 8},
            i \in StreamsInto(fd)}
    [] type = "LOST" ->
         {[PlainRecord(type) EXCEPT !.num_lost = n] : n \in {1, 17}}
    [] OTHER -> {PlainRecord(type)}

RecordsFor(fd) == UNION {RecordsOfType(t, fd) : t \in recordTypes}

\* ------------------------------------------------------------------------
\* Record handlers. A handler works on
\*   d = [listener, stats, deferred, log, fault, consumed, pushed]
\* the listener, stats_, deferred_events_, the history of DeferEvent calls, the
\* crashes executed, the number of ConsumeRecord/SkipRecord calls made on the
\* ring buffer the record was read from and the number of PushEvent calls made
\* on gpu_event_processor_.
\* ------------------------------------------------------------------------
ConsumeRecord(d) == [d EXCEPT !.consumed = @ + 1]

SkipRecord(d) == [d EXCEPT !.consumed = @ + 1]

DeferEvent(d, kind, fd, function) ==
  LET event == [kind |-> kind, fd |-> fd, function |-> function,
                seq |-> Len(d.log) + 1]
  IN [d EXCEPT !.deferred = Append(@, event), !.log = Append(@, event)]

ProcessContextSwitchEvent(d, rec) ==
  LET c == ConsumeRecord(d)
  IN [c EXCEPT !.listener = IF rec.switch_out
                            THEN OnContextSwitchOut(@, rec.tid, rec.cpu, rec.time)
                            ELSE OnContextSwitchIn(@, rec.tid, rec.cpu, rec.time),
               !.stats.sched_switch_count = @ + 1]

\* the switch of the idle task is delivered like any other
ProcessContextSwitchCpuWideEvent_IdleDelivered(d, rec) ==
  LET c == ConsumeRecord(d)
  IN [c EXCEPT !.listener = IF rec.switch_out
                            THEN OnContextSwitchOut(@, rec.tid, rec.cpu, rec.time)
                            ELSE OnContextSwitchIn(@, rec.tid, rec.cpu, rec.time),
               !.stats.sched_switch_count = @ + 1]

ProcessContextSwitchCpuWideEvent(d, rec) ==
  LET c == ConsumeRecord(d)
  IN [c EXCEPT !.listener = IF rec.tid = 0 THEN @
                            ELSE IF rec.switch_out
                            THEN OnContextSwitchOut(@, rec.tid, rec.cpu, rec.time)
                            ELSE OnContextSwitchIn(@, rec.tid, rec.cpu, rec.time),
               !.stats.sched_switch_count = @ + 1]

ProcessForkEvent(d, rec) ==
  LET c == ConsumeRecord(d)
  IN IF rec.pid # pid_ THEN c ELSE [c EXCEPT !.listener = OnTid(@, rec.tid)]

ProcessExitEvent(d, rec) == ConsumeRecord(d)

\* the record of another process is left in the ring buffer
ProcessMmapEvent_ReturnBeforeSkip(d, rec, rb) ==
  IF rec.pid # pid_ THEN d ELSE DeferEvent(SkipRecord(d), "maps", rb.fd, 0)

ProcessMmapEvent(d, rec, rb) ==
  LET c == SkipRecord(d)
  IN IF rec.pid # pid_ THEN c ELSE DeferEvent(c, "maps", rb.fd, 0)

\* the samples of other processes are skipped on GPU ring buffers as well
ProcessSampleEvent_PidFilterOnGpu(d, rec, rb) ==
  LET fd == rb.fd
      is_probe == fd \in uprobes_fds_
      is_gpu_event == fd \in gpu_tracing_fds_
      is_uretprobe == is_probe /\ rec.size = size_of_uretprobe
      is_uprobe == is_probe /\ ~is_uretprobe
      known == rec.stream_id \in DOMAIN uprobes_ids_to_function_
  IN IF is_probe /\ is_gpu_event
       THEN [d EXCEPT !.fault = @ \cup {"check_failed"}]
     ELSE IF rec.pid # pid_
       THEN SkipRecord(d)
     ELSE IF is_uprobe \/ is_uretprobe
       THEN LET c == ConsumeRecord(d)
            IN IF ~known THEN [c EXCEPT !.fault = @ \cup {"out_of_range"}]
               ELSE LET e == DeferEvent(c, IF is_uprobe THEN "uprobe" ELSE "uretprobe",
                                        fd, uprobes_ids_to_function_[rec.stream_id])
                    IN [e EXCEPT !.stats.uprobes_count = @ + 1]
     ELSE IF is_gpu_event
       THEN LET c == ConsumeRecord(d)
            IN IF gpu_event_processor_ = "null"
               THEN [c EXCEPT !.fault = @ \cup {"null_gpu_event_processor"},
                              !.stats.gpu_events_count = @ + 1]
               ELSE [c EXCEPT !.pushed = @ + 1,
                              !.stats.gpu_events_count = @ + 1]
     ELSE LET c == ConsumeRecord(d)
              e == DeferEvent(c, "stack_sample", fd, 0)
          IN [e EXCEPT !.stats.sample_count = @ + 1]

ProcessSampleEvent(d, rec, rb) ==
  LET fd == rb.fd
      is_probe == fd \in uprobes_fds_
      is_gpu_event == fd \in gpu_tracing_fds_
      is_uretprobe == is_probe /\ rec.size = size_of_uretprobe
      is_uprobe == is_probe /\ ~is_uretprobe
      known == rec.stream_id \in DOMAIN uprobes_ids_to_function_
  IN IF is_probe /\ is_gpu_event
       THEN [d EXCEPT !.fault = @ \cup {"check_failed"}]
     ELSE IF rec.pid # pid_ /\ ~is_gpu_event
       THEN SkipRecord(d)
     ELSE IF is_uprobe \/ is_uretprobe
       THEN LET c == ConsumeRecord(d)
            IN IF ~known THEN [c EXCEPT !.fault = @ \cup {"out_of_range"}]
               ELSE LET e == DeferEvent(c, IF is_uprobe THEN "uprobe" ELSE "uretprobe",
                                        fd, uprobes_ids_to_function_[rec.stream_id])
                    IN [e EXCEPT !.stats.uprobes_count = @ + 1]
     ELSE IF is_gpu_event
       THEN LET c == ConsumeRecord(d)
            IN IF gpu_event_processor_ = "null"
               THEN [c EXCEPT !.fault = @ \cup {"null_gpu_event_processor"},
                              !.stats.gpu_events_count = @ + 1]
               ELSE [c EXCEPT !.pushed = @ + 1,
                              !.stats.gpu_events_count = @ + 1]
     ELSE LET c == ConsumeRecord(d)
              e == DeferEvent(c, "stack_sample", fd, 0)
          IN [e EXCEPT !.stats.sample_count = @ + 1]

\* only the total is counted
ProcessLostEvent_TotalOnly(d, rec, key) ==
  LET c == ConsumeRecord(d)
  IN [c EXCEPT !.stats.lost_count = @ + rec.num_lost]

\* stats_.lost_count_per_buffer is keyed by the ring buffer (its position in
\* ring_buffers_); operator[] creates a missing entry with value 0.
ProcessLostEvent(d, rec, key) ==
  LET c == ConsumeRecord(d)
      per_buffer == c.stats.lost_count_per_buffer
      old == IF key \in DOMAIN per_buffer THEN per_buffer[key] ELSE 0
  IN [c EXCEPT !.stats.lost_count = @ + rec.num_lost,
               !.stats.lost_count_per_buffer =
                  (key :> (old + rec.num_lost)) @@ per_buffer]

\* switch (header.type) of lines 373-404
DispatchRecord(d, rec, key) ==
  LET rb == ring_buffers_[key]
  IN CASE rec.type = "SWITCH" -> ProcessContextSwitchEvent(d, rec)
       [] rec.type = "SWITCH_CPU_WIDE" -> ProcessContextSwitchCpuWideEvent(d, rec)
       [] rec.type = "FORK" -> ProcessForkEvent(d, rec)
       [] rec.type = "EXIT" -> ProcessExitEvent(d, rec)
       [] rec.type = "MMAP" -> ProcessMmapEvent(d, rec, rb)
       [] rec.type = "SAMPLE" -> ProcessSampleEvent(d, rec, rb)
       [] rec.type = "LOST" -> ProcessLostEvent(d, rec, key)
       [] OTHER -> SkipRecord(d)


\* ------------------------------------------------------------------------
\* TracerThread::Run, the dispatcher loop (lines 326-407)
\* ------------------------------------------------------------------------
Bump(f, key, n) == (key :> ((IF key \in DOMAIN f THEN f[key] ELSE 0) + n)) @@ f

\* PrintStatsIfTimerElapsed: print and reset when the window has elapsed.
PrintStatsIfTimerElapsed(stats, elapsed) == IF elapsed THEN StatsReset ELSE stats

\* while (!(*exit_requested)) and the idle part of the iteration
WhileExitNotRequested ==
  /\ pc = "while"
  /\ IF exit_requested
     THEN /\ pc' = "stop"
          /\ UNCHANGED <<stats_, windowElapsed, last_iteration_saw_events, rbIdx,
                         pollLog>>
     ELSE /\ pollLog.iterations <= MaxIterations
          /\ stats_' = IF ~last_iteration_saw_events
                       THEN PrintStatsIfTimerElapsed(stats_, windowElapsed)
                       ELSE stats_
          /\ windowElapsed' = IF ~last_iteration_saw_events THEN FALSE
                              ELSE windowElapsed
          /\ last_iteration_saw_events' = FALSE
          /\ rbIdx' = 1
          /\ pollLog' = [pollLog EXCEPT !.interrupted = FALSE]
          /\ pc' = "for_ring_buffer"
  /\ UNCHANGED <<envVars, faults, recs, loopIdx, exit_requested, kernelVars,
                 memberVars, gpu_event_processor_, deferred_events_,
                 stop_deferred_thread_, openLocals, read_from_this_buffer,
                 workerVars, correlator, listener, deferLog, fault>>

\* for (ring_buffer : ring_buffers_) { if (*exit_requested) break; ...
ForRingBuffer ==
  /\ pc = "for_ring_buffer"
  /\ IF rbIdx > Len(ring_buffers_)
     THEN /\ pc' = "while"
          /\ pollLog' = [pollLog EXCEPT !.iterations =
                            IF pollLog.interrupted THEN @ ELSE @ + 1]
          /\ UNCHANGED read_from_this_buffer
     ELSE IF exit_requested
     THEN /\ pc' = "while"
          /\ pollLog' = [pollLog EXCEPT !.interrupted = TRUE]
          /\ UNCHANGED read_from_this_buffer
     ELSE /\ pollLog.iterations < MaxIterations
          /\ pc' = "batch"
          /\ read_from_this_buffer' = 0
          /\ UNCHANGED pollLog
  /\ UNCHANGED <<envVars, faults, recs, loopIdx, exit_requested, kernelVars,
                 memberVars, gpu_event_processor_, deferred_events_,
                 stop_deferred_thread_, stats_, windowElapsed, openLocals,
                 last_iteration_saw_events, rbIdx, workerVars, correlator,
                 listener, deferLog, fault>>

\* What HasNewData() can answer. On a ring buffer that is not mapped the read
\* of the mmap'ed header is undefined: any answer, or a crash.
HasNewDataAnswers(rb) ==
  (IF recs > 0 THEN {"data", "empty"} ELSE {"empty"})
    \cup (IF rb.open THEN {} ELSE {"crash"})

\* read_from_this_buffer < ROUND_ROBIN_POLLING_BATCH_SIZE does not hold any more
BatchExhausted_OneMore(n) == n > ROUND_ROBIN_POLLING_BATCH_SIZE

BatchExhausted(n) == n >= ROUND_ROBIN_POLLING_BATCH_SIZE

\* exit_requested is not read before a record
BatchStep_NoExitCheck ==
  /\ pc = "batch"
  /\ IF BatchExhausted(read_from_this_buffer)
     THEN /\ rbIdx' = rbIdx + 1
          /\ pc' = "for_ring_buffer"
          /\ pollLog' = [pollLog EXCEPT !.last = <<>>]
          /\ UNCHANGED <<recs, last_iteration_saw_events, fault>>
     ELSE \E answer \in HasNewDataAnswers(ring_buffers_[rbIdx]) :
            /\ fault' = IF ring_buffers_[rbIdx].open THEN fault
                        ELSE fault \cup {"unmapped_ring_buffer"}
            /\ IF answer = "data"
               THEN /\ last_iteration_saw_events' = TRUE
                    /\ recs' = recs - 1
                    /\ pc' = "dispatch"
                    /\ pollLog' = [pollLog EXCEPT !.last = <<>>]
                    /\ UNCHANGED rbIdx
               ELSE IF answer = "empty"
               THEN /\ rbIdx' = rbIdx + 1
                    /\ pc' = "for_ring_buffer"
                    /\ pollLog' = [pollLog EXCEPT !.dry = @ \cup {rbIdx},
                                                  !.last = <<>>]
                    /\ UNCHANGED <<recs, last_iteration_saw_events>>
               ELSE /\ pc' = "crashed"
                    /\ UNCHANGED <<recs, last_iteration_saw_events, rbIdx, pollLog>>
  /\ UNCHANGED <<envVars, faults, loopIdx, exit_requested, kernelVars, memberVars,
                 gpu_event_processor_, deferred_events_, stop_deferred_thread_,
                 stats_, windowElapsed, openLocals, read_from_this_buffer,
                 workerVars, correlator, listener, deferLog>>

\* The head of the inner for loop: the batch bound, the exit check and
\* HasNewData (lines 356-364).
BatchStep ==
  /\ pc = "batch"
  /\ IF BatchExhausted(read_from_this_buffer)
     THEN /\ rbIdx' = rbIdx + 1
          /\ pc' = "for_ring_buffer"
          /\ pollLog' = [pollLog EXCEPT !.last = <<>>]
          /\ UNCHANGED <<recs, last_iteration_saw_events, fault>>
     ELSE IF exit_requested
     THEN /\ rbIdx' = rbIdx + 1
          /\ pc' = "for_ring_buffer"
          /\ pollLog' = [pollLog EXCEPT !.interrupted = TRUE, !.last = <<>>]
          /\ UNCHANGED <<recs, last_iteration_saw_events, fault>>
     ELSE \E answer \in HasNewDataAnswers(ring_buffers_[rbIdx]) :
            /\ fault' = IF ring_buffers_[rbIdx].open THEN fault
                        ELSE fault \cup {"unmapped_ring_buffer"}
            /\ IF answer = "data"
               THEN /\ last_iteration_saw_events' = TRUE
                    /\ recs' = recs - 1
                    /\ pc' = "dispatch"
                    /\ pollLog' = [pollLog EXCEPT !.last = <<>>]
                    /\ UNCHANGED rbIdx
               ELSE IF answer = "empty"
               THEN /\ rbIdx' = rbIdx + 1
                    /\ pc' = "for_ring_buffer"
                    /\ pollLog' = [pollLog EXCEPT !.dry = @ \cup {rbIdx},
                                                  !.last = <<>>]
                    /\ UNCHANGED <<recs, last_iteration_saw_events>>
               ELSE /\ pc' = "crashed"
                    /\ UNCHANGED <<recs, last_iteration_saw_events, rbIdx, pollLog>>
  /\ UNCHANGED <<envVars, faults, loopIdx, exit_requested, kernelVars, memberVars,
                 gpu_event_processor_, deferred_events_, stop_deferred_thread_,
                 stats_, windowElapsed, openLocals, read_from_this_buffer,
                 workerVars, correlator, listener, deferLog>>

\* ReadHeader and the switch over header.type (lines 366-404), then the
\* increment of read_from_this_buffer.
ProcessRecord ==
  /\ pc = "dispatch"
  /\ \E rec \in RecordsFor(ring_buffers_[rbIdx].fd) :
       LET before == [listener |-> listener, stats |-> stats_,
                      deferred |-> deferred_events_, log |-> deferLog,
                      fault |-> fault, consumed |-> 0, pushed |-> 0]
           after == DispatchRecord(before, rec, rbIdx)
       IN /\ listener' = after.listener
          /\ stats_' = after.stats
          /\ deferred_events_' = after.deferred
          /\ deferLog' = after.log
          /\ fault' = after.fault
          /\ pollLog' = [pollLog EXCEPT !.read = Bump(@, rbIdx, 1),
                                        !.consumed = Bump(@, rbIdx, after.consumed),
                                        !.last = rec,
                                        !.pushed = @ + after.pushed]
          /\ \E survives \in BOOLEAN :
               /\ ~survives => after.fault # fault
               /\ survives => after.fault \subseteq fault \cup {"null_gpu_event_processor"}
               /\ pc' = IF survives THEN "batch" ELSE "crashed"
  /\ read_from_this_buffer' = read_from_this_buffer + 1
  /\ UNCHANGED <<envVars, faults, recs, loopIdx, exit_requested, kernelVars,
                 memberVars, gpu_event_processor_, stop_deferred_thread_,
                 windowElapsed, openLocals, last_iteration_saw_events, rbIdx,
                 workerVars, correlator>>

\* ------------------------------------------------------------------------
\* The correlator behind uprobes_event_processor_ (PerfEventProcessor2 with
\* the UprobesUnwindingVisitor), by its interface.
\* ------------------------------------------------------------------------
AddEvents(c, evs) == [c EXCEPT !.added = @ \o evs, !.pending = @ \o evs]

\* listener callbacks the visitor makes for the events it is given
Callbacks(evs) == Len(SelectSeq(evs, LAMBDA e : e.kind \in {"stack_sample", "uretprobe"}))

\* ProcessOldEvents hands the k oldest pending events to the visitor
ProcessEvents(c, k) == [c EXCEPT !.pending = SubSeq(@, k + 1, Len(@))]

\* ------------------------------------------------------------------------
\* TracerThread::ProcessDeferredEvents, the deferred-events thread
\* ------------------------------------------------------------------------
Alive == pc # "crashed"

\* should_exit = stop_deferred_thread_;
WorkerReadStopFlag ==
  /\ Alive
  /\ wpc = "read_flag"
  /\ should_exit' = stop_deferred_thread_
  /\ wpc' = "consume"
  /\ UNCHANGED <<envVars, faults, recs, pc, loopIdx, exit_requested, kernelVars,
                 memberVars, gpu_event_processor_, deferred_events_,
                 stop_deferred_thread_, stats_, windowElapsed, openLocals,
                 loopLocals, events, correlator, listener, deferLog, fault>>

\* the queue is copied and left as it is
ConsumeDeferredEvents_QueueKept ==
  /\ Alive
  /\ wpc = "consume"
  /\ events' = deferred_events_
  /\ wpc' = "process"
  /\ UNCHANGED <<envVars, faults, recs, pc, loopIdx, exit_requested, kernelVars,
                 memberVars, gpu_event_processor_, deferred_events_,
                 stop_deferred_thread_, stats_, windowElapsed, openLocals,
                 loopLocals, should_exit, correlator, listener, deferLog, fault>>

\* ConsumeDeferredEvents(): the whole queue is moved out under the mutex
ConsumeDeferredEvents ==
  /\ Alive
  /\ wpc = "consume"
  /\ events' = deferred_events_
  /\ deferred_events_' = <<>>
  /\ wpc' = "process"
  /\ UNCHANGED <<envVars, faults, recs, pc, loopIdx, exit_requested, kernelVars,
                 memberVars, gpu_event_processor_, stop_deferred_thread_, stats_,
                 windowElapsed, openLocals, loopLocals, should_exit, correlator,
                 listener, deferLog, fault>>

\* the loop condition reads stop_deferred_thread_ itself: while (!stop_...)
WorkerProcessEvents_LateFlagRead ==
  /\ Alive
  /\ wpc = "process"
  /\ IF events = <<>>
     THEN UNCHANGED <<correlator, listener>>
     ELSE \E k \in 0..(Len(correlator.pending) + Len(events)) :
            LET added == AddEvents(correlator, events)
            IN /\ correlator' = ProcessEvents(added, k)
               /\ listener' = ListenerCall(listener, Callbacks(SubSeq(added.pending, 1, k)))
  /\ events' = <<>>
  /\ wpc' = IF stop_deferred_thread_ THEN "exited" ELSE "read_flag"
  /\ UNCHANGED <<envVars, faults, recs, pc, loopIdx, exit_requested, kernelVars,
                 memberVars, gpu_event_processor_, deferred_events_,
                 stop_deferred_thread_, stats_, windowElapsed, openLocals,
                 loopLocals, should_exit, deferLog, fault>>

\* The rest of the loop body (lines 592-602) and the loop condition
WorkerProcessEvents ==
  /\ Alive
  /\ wpc = "process"
  /\ IF events = <<>>
     THEN UNCHANGED <<correlator, listener>>
     ELSE \E k \in 0..(Len(correlator.pending) + Len(events)) :
            LET added == AddEvents(correlator, events)
            IN /\ correlator' = ProcessEvents(added, k)
               /\ listener' = ListenerCall(listener, Callbacks(SubSeq(added.pending, 1, k)))
  /\ events' = <<>>
  /\ wpc' = IF should_exit THEN "exited" ELSE "read_flag"
  /\ UNCHANGED <<envVars, faults, recs, pc, loopIdx, exit_requested, kernelVars,
                 memberVars, gpu_event_processor_, deferred_events_,
                 stop_deferred_thread_, stats_, windowElapsed, openLocals,
                 loopLocals, should_exit, deferLog, fault>>

\* ------------------------------------------------------------------------
\* TracerThread::Run, shutdown (lines 409-426)
\* ------------------------------------------------------------------------
\* the flag is left as it is
StopDeferredThread_FlagNotSet ==
  /\ pc = "stop"
  /\ pc' = "join"
  /\ UNCHANGED <<envVars, faults, recs, loopIdx, exit_requested, kernelVars,
                 memberVars, gpu_event_processor_, deferred_events_,
                 stop_deferred_thread_, stats_, windowElapsed, openLocals,
                 loopLocals, workerVars, correlator, listener, deferLog, fault>>

\* stop_deferred_thread_ = true;
StopDeferredThread ==
  /\ pc = "stop"
  /\ stop_deferred_thread_' = TRUE
  /\ pc' = "join"
  /\ UNCHANGED <<envVars, faults, recs, loopIdx, exit_requested, kernelVars,
                 memberVars, gpu_event_processor_, deferred_events_, stats_,
                 windowElapsed, openLocals, loopLocals, workerVars, correlator,
                 listener, deferLog, fault>>

\* the join returns as soon as the queue is empty
JoinReturns_QueueEmpty == deferred_events_ = <<>>

\* the thread is not waited for
JoinReturns_NoWait == TRUE

\* deferred_events_thread.join() returns once the thread has exited
JoinReturns == wpc = "exited"

JoinDeferredThread ==
  /\ pc = "join"
  /\ JoinReturns
  /\ pc' = "process_all"
  /\ UNCHANGED <<envVars, faults, recs, loopIdx, exit_requested, kernelVars,
                 memberVars, gpu_event_processor_, deferred_events_,
                 stop_deferred_thread_, stats_, windowElapsed, openLocals,
                 loopLocals, workerVars, correlator, listener, deferLog, fault>>

\* uprobes_event_processor_->ProcessAllEvents();
ProcessAllEvents ==
  /\ pc = "process_all"
  /\ correlator' = ProcessEvents(correlator, Len(correlator.pending))
  /\ listener' = ListenerCall(listener, Callbacks(correlator.pending))
  /\ pc' = "disable"
  /\ UNCHANGED <<envVars, faults, recs, loopIdx, exit_requested, kernelVars,
                 memberVars, gpu_event_processor_, deferred_events_,
                 stop_deferred_thread_, stats_, windowElapsed, openLocals,
                 loopLocals, workerVars, deferLog, fault>>

\* for (int fd : tracing_fds_) perf_event_disable(fd);
DisableAll ==
  /\ pc = "disable"
  /\ shutdownLog' = shutdownLog \o
       [i \in 1..Len(tracing_fds_) |-> [op |-> "disable", fd |-> tracing_fds_[i]]]
  /\ pc' = "clear"
  /\ UNCHANGED <<envVars, faults, recs, loopIdx, exit_requested, openFds, closeCount,
                 mapped, redirect, enableOrder, memberVars, gpu_event_processor_,
                 deferred_events_, stop_deferred_thread_, stats_, windowElapsed,
                 openLocals, loopLocals, workerVars, correlator, listener, deferLog,
                 fault>>

\* ring_buffers_.clear(): every PerfEventRingBuffer is destroyed, which unmaps it
ClearRingBuffers ==
  /\ pc = "clear"
  /\ shutdownLog' = shutdownLog \o
       [i \in 1..Len(ring_buffers_) |-> [op |-> "munmap", fd |-> ring_buffers_[i].fd]]
  /\ mapped' = mapped \ {ring_buffers_[i].fd : i \in 1..Len(ring_buffers_)}
  /\ ring_buffers_' = <<>>
  /\ pc' = "close"
  /\ UNCHANGED <<envVars, faults, recs, loopIdx, exit_requested, openFds, closeCount,
                 redirect, enableOrder, tracing_fds_, uprobes_fds_,
                 uprobes_ids_to_function_, gpu_tracing_fds_, gpu_event_processor_,
                 deferred_events_, stop_deferred_thread_, stats_, windowElapsed,
                 openLocals, loopLocals, workerVars, correlator, listener, deferLog,
                 fault>>

\* for (int fd : tracing_fds_) close(fd);
CloseTracingFds ==
  /\ pc = "close"
  /\ LET kern == CloseAll([open |-> openFds, count |-> closeCount], tracing_fds_)
     IN /\ openFds' = kern.open
        /\ closeCount' = kern.count
  /\ shutdownLog' = shutdownLog \o
       [i \in 1..Len(tracing_fds_) |-> [op |-> "close", fd |-> tracing_fds_[i]]]
  /\ pc' = "done"
  /\ UNCHANGED <<envVars, faults, recs, loopIdx, exit_requested, mapped, redirect,
                 enableOrder, memberVars, gpu_event_processor_, deferred_events_,
                 stop_deferred_thread_, stats_, windowElapsed, openLocals,
                 loopLocals, workerVars, correlator, listener, deferLog, fault>>

\* ------------------------------------------------------------------------
\* The environment
\* ------------------------------------------------------------------------
\* request_stop(): the caller sets the shared flag
RequestStop ==
  /\ ~exit_requested
  /\ pc \notin {"done", "crashed"}
  /\ exit_requested' = TRUE
  /\ UNCHANGED <<envVars, faults, recs, pc, loopIdx, kernelVars, memberVars,
                 gpu_event_processor_, deferred_events_, stop_deferred_thread_,
                 stats_, windowElapsed, openLocals, loopLocals, workerVars,
                 correlator, listener, deferLog, fault>>

\* EVENT_COUNT_WINDOW_S seconds have passed since stats_.event_count_begin_ns.
\* Only PrintStatsIfTimerElapsed reads the clock, so the moment is observed as if
\* it fell between two iterations of the dispatcher.
WindowElapses ==
  /\ pc = "while"
  /\ ~windowElapsed
  /\ windowElapsed' = TRUE
  /\ UNCHANGED <<envVars, faults, recs, pc, loopIdx, exit_requested, kernelVars,
                 memberVars, gpu_event_processor_, deferred_events_,
                 stop_deferred_thread_, stats_, openLocals, loopLocals, workerVars,
                 correlator, listener, deferLog, fault>>

\* The traced system keeps producing records: the kernel has records to
\* deliver again, and the history of the polling starts anew.
KernelRefills ==
  /\ pc \in {"while", "for_ring_buffer", "batch"}
  /\ recs' = MaxRecords
  /\ pollLog' = [iterations |-> 0, interrupted |-> FALSE, read |-> <<>>,
                 consumed |-> <<>>, dry |-> {}, last |-> <<>>, pushed |-> 0]
  /\ UNCHANGED <<envVars, faults, pc, loopIdx, exit_requested, kernelVars,
                 memberVars, gpu_event_processor_, deferred_events_,
                 stop_deferred_thread_, stats_, windowElapsed, openLocals,
                 last_iteration_saw_events, rbIdx, read_from_this_buffer,
                 workerVars, correlator, listener, deferLog, fault>>

Next ==
  \/ RunReset
  \/ OpenContextSwitch
  \/ InitProcessors
  \/ OpenProbesForFunction
  \/ OpenMmapTask
  \/ OpenSampling
  \/ OpenGpu
  \/ EnableAll
  \/ StartThreads
  \/ WhileExitNotRequested
  \/ ForRingBuffer
  \/ BatchStep
  \/ ProcessRecord
  \/ WorkerReadStopFlag
  \/ ConsumeDeferredEvents
  \/ WorkerProcessEvents
  \/ StopDeferredThread
  \/ JoinDeferredThread
  \/ ProcessAllEvents
  \/ DisableAll
  \/ ClearRingBuffers
  \/ CloseTracingFds
  \/ RequestStop
  \/ WindowElapses

\* Run when the caller has requested the stop before the first check of
\* exit_requested: the dispatcher loop is not entered.
NextOpenClose ==
  \/ RunReset
  \/ OpenContextSwitch
  \/ InitProcessors
  \/ OpenProbesForFunction
  \/ OpenMmapTask
  \/ OpenSampling
  \/ OpenGpu
  \/ EnableAll
  \/ StartThreads
  \/ WhileExitNotRequested
  \/ WorkerReadStopFlag
  \/ ConsumeDeferredEvents
  \/ WorkerProcessEvents
  \/ StopDeferredThread
  \/ JoinDeferredThread
  \/ ProcessAllEvents
  \/ DisableAll
  \/ ClearRingBuffers
  \/ CloseTracingFds

\* The caller calls Run again on the same TracerThread after Run has returned.
\* The members keep what the last Run left in them; the locals of Run and of
\* ProcessDeferredEvents are new; exit_requested is a new flag of the caller.
\* The kernel has dropped the redirections of the fds that were closed. The
\* histories start again for the new Run.
RunAgain ==
  /\ pc = "done"
  /\ Len(runs) + 1 < MaxRuns
  /\ runs' = Append(runs, [tracing_fds_ |-> tracing_fds_,
                           uprobes_fds_ |-> uprobes_fds_,
                           gpu_tracing_fds_ |-> gpu_tracing_fds_,
                           stop_deferred_thread_ |-> stop_deferred_thread_,
                           open |-> openFds])
  /\ pc' = "Reset"
  /\ exit_requested' = FALSE
  /\ loopIdx' = 1
  /\ open_errors' = [perf |-> FALSE, uprobes |-> FALSE, gpu |-> FALSE]
  /\ uprobes_ring_buffer_fds_per_cpu' = <<>>
  /\ last_iteration_saw_events' = FALSE
  /\ rbIdx' = 1
  /\ read_from_this_buffer' = 0
  /\ wpc' = "not_started"
  /\ should_exit' = FALSE
  /\ events' = <<>>
  /\ redirect' = [fd \in DOMAIN redirect \cap openFds |-> redirect[fd]]
  /\ closeCount' = [fd \in FdUniverse |-> 0]
  /\ enableOrder' = <<>>
  /\ shutdownLog' = <<>>
  /\ listener' = [calls |-> 0, after_stop |-> FALSE, last |-> <<>>]
  /\ probeLog' = <<>>
  /\ gpuLog' = [called |-> FALSE, ok |-> FALSE, opened |-> <<>>]
  /\ pollLog' = [iterations |-> 0, interrupted |-> FALSE, read |-> <<>>,
                 consumed |-> <<>>, dry |-> {}, last |-> <<>>, pushed |-> 0]
  /\ deferLog' = <<>>
  /\ UNCHANGED <<cfg, recordTypes, faults, recs, openFds, mapped, memberVars,
                 gpu_event_processor_, deferred_events_, stop_deferred_thread_,
                 stats_, windowElapsed, correlator, fault>>

NextRuns == Next \/ RunAgain

\* ------------------------------------------------------------------------
\* Specifications
\* ------------------------------------------------------------------------
\* Spec: one core, one instrumented function, with and without probes, no GPU
\* tracepoints; kernel failures, every record type, the stop requested at any
\* time.
OneCoreConfigs == {c \in Configs({1}) :
                     /\ c.num_functions = 1 /\ c.cpuset = {}
                     /\ ~c.trace_context_switches_ /\ ~c.trace_callstacks_}

RunConfigs == {c \in OneCoreConfigs : ~c.trace_gpu_driver_events}

Init == InitWith(RunConfigs, MaxFaults, MaxRecords, RecordTypes, {FALSE})

Spec == Init /\ [][Next]_vars

\* SpecGpu: as Spec, with the GPU feature flag on and ring buffers that carry
\* samples only.
GpuConfigs == {c \in OneCoreConfigs : c.trace_gpu_driver_events}

InitGpu == InitWith(GpuConfigs, MaxFaults, MaxRecords, {"SAMPLE"}, {FALSE})

SpecGpu == InitGpu /\ [][Next]_vars

\* SpecOpen: every configuration and kernel failures, the stop requested before
\* Run starts; opening and shutdown.
InitOpen == InitWith(Configs(1..MaxCores), MaxFaults, 0, {}, {TRUE})

SpecOpen == InitOpen /\ [][NextOpenClose]_vars

\* SpecPoll: the mmap/task sources of two cores and nothing else, no failures,
\* ring buffers that can stay full for several iterations of the dispatcher.
PollConfigs == {c \in Configs({2}) :
                  /\ c.num_functions = 1 /\ c.cpuset = {}
                  /\ ~c.trace_context_switches_
                  /\ ~c.trace_instrumented_functions_
                  /\ ~c.trace_callstacks_
                  /\ ~c.trace_gpu_driver_events}

InitPoll == InitWith(PollConfigs, 0, MaxPollRecords, {"EXIT"}, {FALSE})

SpecPoll == InitPoll /\ [][Next]_vars

\* The steps of the thread that executes Run and those of the deferred-events
\* thread. Both are threads of the operating system: a thread that can take a
\* step is eventually scheduled.
RunThread ==
  \/ RunReset
  \/ OpenContextSwitch
  \/ InitProcessors
  \/ OpenProbesForFunction
  \/ OpenMmapTask
  \/ OpenSampling
  \/ OpenGpu
  \/ EnableAll
  \/ StartThreads
  \/ WhileExitNotRequested
  \/ ForRingBuffer
  \/ BatchStep
  \/ ProcessRecord
  \/ StopDeferredThread
  \/ JoinDeferredThread
  \/ ProcessAllEvents
  \/ DisableAll
  \/ ClearRingBuffers
  \/ CloseTracingFds

DeferredEventsThread ==
  \/ WorkerReadStopFlag
  \/ ConsumeDeferredEvents
  \/ WorkerProcessEvents

\* SpecFair: as Spec with ring buffers that carry samples and mmap records
\* (the records that are deferred), under fair scheduling of the two threads.
InitFair == InitWith(RunConfigs, MaxFaults, MaxRecords, {"SAMPLE", "MMAP"}, {FALSE})

SpecFair ==
  InitFair /\ [][Next]_vars /\ WF_vars(RunThread) /\ WF_vars(DeferredEventsThread)

\* Run with a traced system that never runs out of records
NextBusy == Next \/ KernelRefills

\* SpecBusy: the mmap/task sources of two cores, no failures, records without
\* end, fair scheduling of the two threads.
InitBusy == InitWith(PollConfigs, 0, MaxRecords, {"EXIT"}, {FALSE})

SpecBusy ==
  InitBusy /\ [][NextBusy]_vars /\ WF_vars(RunThread) /\ WF_vars(DeferredEventsThread)
    /\ WF_vars(KernelRefills)

\* SpecProbes: one core, one or two instrumented functions, kernel failures,
\* ring buffers that carry samples, the stop requested at any time.
ProbeConfigs == {c \in Configs({1}) :
                   /\ c.cpuset = {} /\ c.trace_instrumented_functions_
                   /\ ~c.trace_context_switches_ /\ ~c.trace_callstacks_
                   /\ ~c.trace_gpu_driver_events}

InitProbes == InitWith(ProbeConfigs, MaxFaults, MaxRecords, {"SAMPLE"}, {FALSE})

SpecProbes == InitProbes /\ [][Next]_vars

\* SpecDispatch: one core with the mmap/task source, the probes of one function
\* and the GPU tracepoints, no kernel failures, every record type in every
\* ring buffer, the stop requested at any time.
DispatchConfigs == {c \in OneCoreConfigs :
                      c.trace_instrumented_functions_ /\ c.trace_gpu_driver_events}

InitDispatch == InitWith(DispatchConfigs, 0, MaxRecords, RecordTypes, {FALSE})

SpecDispatch == InitDispatch /\ [][Next]_vars

\* SpecRuns: MaxRuns consecutive runs of one TracerThread; one core, the
\* mmap/task source and the probes of one function, kernel failures, ring
\* buffers that carry samples.
RunsConfigs == {c \in RunConfigs : c.trace_instrumented_functions_}

InitRuns == InitWith(RunsConfigs, MaxFaults, MaxRecords, {"SAMPLE"}, {FALSE})

SpecRuns == InitRuns /\ [][NextRuns]_vars

TypeOK ==
  /\ pc \in {"Reset", "context_switch", "init_processors", "probes", "mmap_task",
             "sampling", "gpu", "enable", "start_threads", "while",
             "for_ring_buffer", "batch", "dispatch", "stop", "join", "process_all",
             "disable", "clear", "close", "done", "crashed"}
  /\ wpc \in {"not_started", "read_flag", "consume", "process", "exited"}
  /\ faults \in 0..MaxFaults
  /\ openFds \subseteq FdUniverse


\* ------------------------------------------------------------------------
\* Properties
\* ------------------------------------------------------------------------
OpeningPcs == {"Reset", "context_switch", "init_processors", "probes", "mmap_task",
               "sampling", "gpu", "enable"}

ShutdownPcs == {"process_all", "disable", "clear", "close", "done"}

\* a and b both occur in s, and every occurrence of a is before every one of b
Before(s, a, b) ==
  /\ \E i \in 1..Len(s) : s[i] = a
  /\ \E j \in 1..Len(s) : s[j] = b
  /\ \A i, j \in 1..Len(s) : s[i] = a /\ s[j] = b => i < j

Count(s, x) == Cardinality({i \in 1..Len(s) : s[i] = x})

CommittedFunctions == {f \in 1..Len(probeLog) : probeLog[f].committed}

\* C1: for every function whose probes are committed and every cpu of the
\* cpuset, the uretprobes fd is in tracing_fds_ before the uprobes fd of the same
\* function and cpu, and the enable loop enables it before the uprobes fd.
C1_ReturnProbeEnabledFirst ==
  \A f \in CommittedFunctions : \A c \in Range(cpuset_cpus) :
    /\ Before(tracing_fds_, probeLog[f].uretprobes[c], probeLog[f].uprobes[c])
    /\ pc \notin OpeningPcs =>
         Before(enableOrder, probeLog[f].uretprobes[c], probeLog[f].uprobes[c])

C1_Witness ==
  /\ pc = "start_threads"
  /\ Cardinality(CommittedFunctions) = 2
  /\ Len(cpuset_cpus) = 2

OpsOf(op) == SelectSeq(shutdownLog, LAMBDA e : e.op = op)

\* C2: tracing_fds_ holds no fd twice; the shutdown disables every fd of
\* tracing_fds_, then unmaps every ring buffer, then closes every fd of
\* tracing_fds_, each exactly once.
C2_ShutdownClosesEachFdOnce ==
  /\ NoDuplicates(tracing_fds_)
  /\ \A i, j \in 1..Len(shutdownLog) :
       i < j => /\ shutdownLog[i].op = "close" => shutdownLog[j].op = "close"
                /\ shutdownLog[i].op = "munmap" => shutdownLog[j].op # "disable"
  /\ pc \in {"clear", "close", "done"} =>
       \A fd \in Range(tracing_fds_) : Count(OpsOf("disable"), [op |-> "disable", fd |-> fd]) = 1
  /\ pc \in {"close", "done"} => mapped = {} /\ ring_buffers_ = <<>>
  /\ pc = "done" =>
       \A fd \in Range(tracing_fds_) :
         /\ Count(OpsOf("close"), [op |-> "close", fd |-> fd]) = 1
         /\ closeCount[fd] = 1
         /\ fd \notin openFds
  /\ pc # "done" => \A fd \in Range(tracing_fds_) : fd \in openFds /\ closeCount[fd] = 0

C2_Witness ==
  /\ pc = "done"
  /\ uprobes_fds_ # {}
  /\ DOMAIN redirect # {}
  /\ gpu_tracing_fds_ # {}
  /\ Len(tracing_fds_) > Len(OpsOf("munmap"))

LastFunction == probeLog[Len(probeLog)]

FdsOf(entry) == Image(entry.uprobes) \cup Image(entry.uretprobes)

\* C5: right after the probe loop has handled a function: if an open failed,
\* every fd opened for the function is closed exactly once and is in none of
\* tracing_fds_, uprobes_ids_to_function_, uprobes_fds_, ring_buffers_, and
\* uprobes_event_open_errors is set; otherwise the uprobes and the uretprobes fd
\* of every cpu of the cpuset are committed. The loop goes on in both cases.
C5_ProbesAllOrNothing ==
  (pc = "probes" /\ Len(probeLog) > 0) =>
    /\ loopIdx = Len(probeLog) + 1
    /\ LastFunction.committed <=>
         DOMAIN LastFunction.uretprobes = Range(cpuset_cpus)
    /\ IF LastFunction.committed
       THEN /\ DOMAIN LastFunction.uprobes = Range(cpuset_cpus)
            /\ \A fd \in FdsOf(LastFunction) :
                 /\ fd \in openFds
                 /\ Count(tracing_fds_, fd) = 1
                 /\ perf_event_get_id(fd) \in DOMAIN uprobes_ids_to_function_
                 /\ uprobes_ids_to_function_[perf_event_get_id(fd)] = Len(probeLog)
       ELSE /\ open_errors.uprobes
            /\ \A fd \in FdsOf(LastFunction) :
                 /\ closeCount[fd] = 1
                 /\ fd \notin openFds
                 /\ fd \notin Range(tracing_fds_)
                 /\ fd \notin uprobes_fds_
                 /\ perf_event_get_id(fd) \notin DOMAIN uprobes_ids_to_function_
                 /\ \A i \in 1..Len(ring_buffers_) : ring_buffers_[i].fd # fd

C5_Witness ==
  /\ pc = "probes"
  /\ Len(probeLog) = 2
  /\ probeLog[1].committed
  /\ ~probeLog[2].committed
  /\ Cardinality(FdsOf(probeLog[2])) = 3

GpuRingBuffers ==
  {i \in 1..Len(ring_buffers_) : ring_buffers_[i].name[1] \in Range(GpuTracepoints)}

\* C6: once OpenGpuTracepoints has returned: if it failed, every fd it opened
\* is closed exactly once, gpu_tracing_fds_ is empty and neither tracing_fds_
\* nor ring_buffers_ holds anything of the GPU; if it succeeded, the three fds
\* of every cpu are in gpu_tracing_fds_ and in tracing_fds_ and each has its
\* mapped ring buffer in ring_buffers_.
C6_GpuAllOrNothing ==
  (gpuLog.called /\ pc \notin {"clear", "close", "done"}) =>
    /\ open_errors.gpu = ~gpuLog.ok
    /\ IF gpuLog.ok
       THEN /\ Len(gpuLog.opened) = 3 * Len(all_cpus)
            /\ gpu_tracing_fds_ = Range(gpuLog.opened)
            /\ \A fd \in Range(gpuLog.opened) :
                 /\ fd \in openFds
                 /\ Count(tracing_fds_, fd) = 1
                 /\ \E i \in GpuRingBuffers :
                      ring_buffers_[i].fd = fd /\ ring_buffers_[i].open
       ELSE /\ gpu_tracing_fds_ = {}
            /\ GpuRingBuffers = {}
            /\ \A fd \in Range(gpuLog.opened) :
                 /\ closeCount[fd] = 1
                 /\ fd \notin openFds
                 /\ fd \notin Range(tracing_fds_)
                 /\ fd \notin mapped

\* the mmap of the second tracepoint's ring buffer failed
C6_Witness ==
  /\ pc = "enable"
  /\ gpuLog.called
  /\ ~gpuLog.ok
  /\ Len(gpuLog.opened) = 2
  /\ tracing_fds_ # <<>>


\* C3 as stated: no listener callback is made once exit_requested is true.
C3_NoCallbackAfterStopRequest == ~listener.after_stop

\* C3 amended: no listener callback is made once Run has returned; until then
\* the record in progress, the drain of the deferred-events thread and
\* ProcessAllEvents may still call the listener after exit_requested is true.
C3_NoCallbackAfterRunReturns == [][pc = "done" => listener' = listener]_vars

C3_Witness ==
  /\ pc = "done"
  /\ listener.after_stop
  /\ correlator.added # <<>>
  /\ listener.calls >= 3

\* C4: the shutdown sets stop_deferred_thread_, joins the thread, runs
\* ProcessAllEvents, disables the fds, drops the ring buffers and closes the
\* fds, in this order; when the join has returned the thread has exited, the
\* deferred queue is empty and every event ever passed to DeferEvent has been
\* given to AddEvent, in the same order.
C4_NoDeferredEventAbandoned ==
  /\ pc \in {"join"} \cup ShutdownPcs => stop_deferred_thread_
  /\ stop_deferred_thread_ => pc \in {"join"} \cup ShutdownPcs \cup {"crashed"}
  /\ pc \in ShutdownPcs =>
       /\ wpc = "exited"
       /\ deferred_events_ = <<>>
       /\ events = <<>>
       /\ correlator.added = deferLog
  /\ pc \in ShutdownPcs \ {"process_all"} => correlator.pending = <<>>
  /\ shutdownLog # <<>> => pc \in {"clear", "close", "done"}
  /\ \A i, j \in 1..Len(shutdownLog) :
       i < j => /\ shutdownLog[i].op = "close" => shutdownLog[j].op = "close"
                /\ shutdownLog[i].op = "munmap" => shutdownLog[j].op # "disable"

C4_Witness ==
  /\ pc = "done"
  /\ Len(deferLog) = 2
  /\ correlator.added = deferLog
  /\ Len(shutdownLog) > 2

LostSum(stats) ==
  SumOver(stats.lost_count_per_buffer, DOMAIN stats.lost_count_per_buffer)

\* C9: in every state lost_count is the sum of lost_count_per_buffer; a LOST
\* record read from a ring buffer changes the entry of that ring buffer only,
\* by the amount it adds to lost_count; and when lost_count goes down the
\* whole stats_ are reset.
C9_LostTotalIsSumPerBuffer ==
  [][/\ stats_'.lost_count = LostSum(stats_')
     /\ pc = "dispatch" =>
          LET old == stats_.lost_count_per_buffer
              new == stats_'.lost_count_per_buffer
          IN /\ \A k \in DOMAIN new : k # rbIdx => k \in DOMAIN old /\ new[k] = old[k]
             /\ stats_'.lost_count >= stats_.lost_count
             /\ stats_'.lost_count > stats_.lost_count =>
                  new[rbIdx] - (IF rbIdx \in DOMAIN old THEN old[rbIdx] ELSE 0)
                    = stats_'.lost_count - stats_.lost_count
     /\ stats_'.lost_count < stats_.lost_count => stats_' = EmptyStats]_vars

C9_Witness ==
  /\ stats_.lost_count = 18
  /\ DOMAIN stats_.lost_count_per_buffer = {1, 2}
  /\ stats_.lost_count_per_buffer[2] = 17


\* C7: a failing OpenGpuTracepoints leaves tracing_fds_, ring_buffers_,
\* uprobes_fds_ and uprobes_ids_to_function_ as they were; afterwards
\* gpu_tracing_fds_ stays empty, the fds of tracing_fds_ are the ones enabled,
\* and no sample is ever handled as a GPU event.
C7_FailedGpuOpenChangesNothing ==
  [][/\ (pc = "gpu" /\ open_errors'.gpu) =>
          UNCHANGED <<tracing_fds_, ring_buffers_, uprobes_fds_,
                      uprobes_ids_to_function_>>
     /\ open_errors'.gpu =>
          /\ gpu_tracing_fds_' = {}
          /\ stats_'.gpu_events_count = 0
          /\ "null_gpu_event_processor" \notin fault'
          /\ pc' \notin OpeningPcs => enableOrder' = tracing_fds_']_vars

C7_Witness ==
  /\ open_errors.gpu
  /\ Len(gpuLog.opened) = 3
  /\ uprobes_fds_ # {}
  /\ pc = "batch"
  /\ stats_.uprobes_count > 0

\* C8: the dispatcher never calls PushEvent on a gpu_event_processor_ that
\* InitGpuTracepointEventProcessor did not construct.
C8_NoPushWithoutGpuProcessor == "null_gpu_event_processor" \notin fault

Read(b) == IF b \in DOMAIN pollLog.read THEN pollLog.read[b] ELSE 0

\* C10: at most ROUND_ROBIN_POLLING_BATCH_SIZE records are read from a ring
\* buffer in one pass over ring_buffers_, the ring buffers are visited in their
\* order, and after K complete passes every ring buffer that had data at every
\* HasNewData has had exactly K * ROUND_ROBIN_POLLING_BATCH_SIZE records read.
C10_RoundRobinBatches ==
  /\ read_from_this_buffer <= ROUND_ROBIN_POLLING_BATCH_SIZE
  /\ pc \in {"batch", "dispatch"} /\ ~pollLog.interrupted =>
       \A b \in 1..Len(ring_buffers_) :
         /\ b \notin pollLog.dry /\ b < rbIdx =>
              Read(b) = (pollLog.iterations + 1) * ROUND_ROBIN_POLLING_BATCH_SIZE
         /\ b = rbIdx => Read(b) <= pollLog.iterations * ROUND_ROBIN_POLLING_BATCH_SIZE
                                      + read_from_this_buffer
         /\ b > rbIdx => Read(b) <= pollLog.iterations * ROUND_ROBIN_POLLING_BATCH_SIZE
  /\ pc = "while" /\ ~pollLog.interrupted =>
       \A b \in 1..Len(ring_buffers_) :
         /\ Read(b) <= pollLog.iterations * ROUND_ROBIN_POLLING_BATCH_SIZE
         /\ b \notin pollLog.dry =>
              Read(b) = pollLog.iterations * ROUND_ROBIN_POLLING_BATCH_SIZE

C10_Witness ==
  /\ pc = "while"
  /\ Len(ring_buffers_) = 2
  /\ pollLog.iterations = 2
  /\ pollLog.dry = {}
  /\ Read(1) = 2 * ROUND_ROBIN_POLLING_BATCH_SIZE
  /\ Read(2) = 2 * ROUND_ROBIN_POLLING_BATCH_SIZE

\* ProcessRecord has just handled a record of this type
Handled(type) ==
  pc = "dispatch" /\ pollLog'.read # pollLog.read /\ pollLog'.last.type = type

Consumed(log, b) == IF b \in DOMAIN log.consumed THEN log.consumed[b] ELSE 0

\* C11: a PERF_RECORD_SWITCH_CPU_WIDE record with tid 0 causes no listener
\* call; one with another tid causes exactly one, OnContextSwitchOut when it is
\* a switch-out and OnContextSwitchIn otherwise, with the tid, cpu and timestamp
\* of the record; either way the record is consumed once and sched_switch_count
\* grows by one.
C11_CpuWideContextSwitch ==
  [][Handled("SWITCH_CPU_WIDE") =>
       LET rec == pollLog'.last
       IN /\ Consumed(pollLog', rbIdx) = Consumed(pollLog, rbIdx) + 1
          /\ stats_'.sched_switch_count = stats_.sched_switch_count + 1
          /\ IF rec.tid = 0
             THEN listener' = listener
             ELSE /\ listener'.calls = listener.calls + 1
                  /\ listener'.last =
                       <<IF rec.switch_out THEN "OnContextSwitchOut"
                         ELSE "OnContextSwitchIn", rec.tid, rec.cpu, rec.time>>]_vars

\* {tid=100, cpu=0, ts=10} then {tid=0, cpu=1, ts=20}, both switch-out: the one
\* call after OnTid is OnContextSwitchOut(100, 0, 10)
C11_Witness ==
  /\ pollLog.last = [PlainRecord("SWITCH_CPU_WIDE") EXCEPT
                       !.switch_out = TRUE, !.tid = 0, !.cpu = 1, !.time = 20]
  /\ stats_.sched_switch_count = 2
  /\ listener.calls = 2
  /\ listener.last = <<"OnContextSwitchOut", 100, 0, 10>>
  /\ pc = "batch"

\* what ProcessSampleEvent makes of a sample read from the ring buffer of fd
SampleKind(fd, rec) ==
  IF fd \in gpu_tracing_fds_ THEN "gpu"
  ELSE IF fd \in uprobes_fds_ /\ rec.size = size_of_uretprobe THEN "uretprobe"
  ELSE IF fd \in uprobes_fds_ THEN "uprobe"
  ELSE "stack_sample"

SampleCounter(kind) ==
  CASE kind = "gpu" -> "gpu_events_count"
    [] kind \in {"uprobe", "uretprobe"} -> "uprobes_count"
    [] OTHER -> "sample_count"

RootFds == {ring_buffers_[i].fd : i \in 1..Len(ring_buffers_)}

\* ring buffers the output of fd goes to: its own, or the one it is redirected to
RingBuffersOf(fd) ==
  {i \in 1..Len(ring_buffers_) :
     \/ ring_buffers_[i].fd = fd /\ fd \notin DOMAIN redirect
     \/ fd \in DOMAIN redirect /\ redirect[fd] = ring_buffers_[i].fd}

\* C14: from the end of the opening to the shutdown every open fd is in
\* tracing_fds_ and is the root of, or redirected into, exactly one ring buffer
\* of ring_buffers_; when Run has returned no fd is open.
C14_NoOpenFdUntracked ==
  /\ pc \in {"enable", "start_threads", "while", "for_ring_buffer", "batch",
             "dispatch", "stop", "join", "process_all", "disable", "clear"} =>
       /\ openFds \subseteq Range(tracing_fds_)
       /\ \A fd \in openFds : Cardinality(RingBuffersOf(fd)) = 1
  /\ pc = "done" => openFds = {}


\* C15: every ring buffer of ring_buffers_ is mapped (IsOpen), the one of the
\* uprobes of a cpu included; no fd is in uprobes_fds_ for, or redirected to, a
\* ring buffer that is not mapped; the dispatcher never polls an unmapped ring
\* buffer.
C15_PolledRingBuffersAreMapped ==
  /\ \A i \in 1..Len(ring_buffers_) : ring_buffers_[i].open
  /\ pc \notin {"close", "done"} =>
       /\ uprobes_fds_ \subseteq mapped
       /\ \A fd \in DOMAIN redirect : redirect[fd] \in mapped
  /\ "unmapped_ring_buffer" \notin fault


\* C16: once the reporting window has elapsed while the dispatcher runs, the
\* stats are eventually printed and reset (which starts a new window), whatever
\* the ring buffers hold.
C16_StatsEventuallyPrinted ==
  windowElapsed ~> (~windowElapsed \/ exit_requested)


\* C17: in every state the events given to AddEvent, then the events the
\* deferred-events thread has taken from the queue, then the queue are the
\* events passed to DeferEvent, each once, in the order of the DeferEvent
\* calls and with the fd they were given; so the AddEvent calls are a prefix
\* of the DeferEvent calls, and the whole of them once the thread has exited.
C17_DeferredEventsOnceInOrder ==
  /\ correlator.added \o events \o deferred_events_ = deferLog
  /\ \A i \in 1..Len(deferLog) : deferLog[i].seq = i
  /\ wpc = "exited" => correlator.added = deferLog

\* one event is with the correlator while the next one waits in the queue
C17_Witness ==
  /\ Len(deferLog) = 2
  /\ Len(correlator.added) = 1
  /\ events = <<>>
  /\ Len(deferred_events_) = 1
  /\ deferLog[1].fd # deferLog[2].fd


\* C18: exit_requested is read before each iteration, each ring buffer and
\* each record: once it is true the while loop goes to the shutdown, the for
\* loop goes back to the while, the batch goes back to the for loop, and no
\* ReadHeader is started; the only record read after that is the one whose
\* header was being read. stop_deferred_thread_ is set after the loop, and from
\* then on no record is read and DeferEvent is not called.
C18_ExitCheckedBeforeEachRead ==
  [][/\ exit_requested /\ pc # "dispatch" => pc' # "dispatch"
     /\ exit_requested /\ pollLog'.read # pollLog.read =>
          pc = "dispatch" /\ pc' # "dispatch"
     /\ exit_requested /\ pc' # pc =>
          /\ pc = "while" => pc' = "stop"
          /\ pc = "for_ring_buffer" => pc' = "while"
          /\ pc = "batch" => pc' = "for_ring_buffer"
     /\ stop_deferred_thread_' /\ ~stop_deferred_thread_ =>
          pc = "stop" /\ pc' = "join" /\ exit_requested
     /\ stop_deferred_thread_ =>
          deferLog' = deferLog /\ pollLog'.read = pollLog.read]_vars

\* the for loop or the batch was left by its exit check after every record was
\* read and two events were deferred, a listener call was made after the stop
\* request, and the stop flag of the thread is set
C18_Witness ==
  /\ stop_deferred_thread_
  /\ listener.after_stop
  /\ Len(deferLog) = 2
  /\ recs = 0
  /\ pollLog.interrupted


ProbeRingBuffers(cpu) ==
  {i \in 1..Len(ring_buffers_) : ring_buffers_[i].name = <<"uprobes_uretprobes", cpu>>}

FirstCommitted == CHOOSE f \in CommittedFunctions : \A g \in CommittedFunctions : f <= g

\* C19: while the ring buffers exist, if no function is committed there is no
\* uprobes ring buffer and uprobes_fds_ is empty; else every cpu of the cpuset
\* has exactly one uprobes ring buffer, on the uprobes fd of the first
\* committed function for that cpu (never an fd of a rolled-back function,
\* which is closed); uprobes_fds_ is the set of these fds; they are not
\* redirected; every other uprobes and uretprobes fd committed for the cpu is
\* redirected to that fd.
C19_OneProbeRingBufferPerCpu ==
  pc \notin {"close", "done"} =>
    IF CommittedFunctions = {}
    THEN /\ uprobes_fds_ = {}
         /\ \A i \in 1..Len(cpuset_cpus) : ProbeRingBuffers(cpuset_cpus[i]) = {}
    ELSE LET root == [c \in Range(cpuset_cpus) |-> probeLog[FirstCommitted].uprobes[c]]
         IN /\ uprobes_fds_ = Image(root)
            /\ uprobes_fds_ \subseteq openFds
            /\ Cardinality(uprobes_fds_) = Len(cpuset_cpus)
            /\ \A c \in Range(cpuset_cpus) :
                 /\ Cardinality(ProbeRingBuffers(c)) = 1
                 /\ \A i \in ProbeRingBuffers(c) : ring_buffers_[i].fd = root[c]
                 /\ root[c] \notin DOMAIN redirect
                 /\ \A f \in CommittedFunctions :
                      \A fd \in {probeLog[f].uprobes[c], probeLog[f].uretprobes[c]} \ {root[c]} :
                        /\ fd \in DOMAIN redirect
                        /\ redirect[fd] = root[c]

\* two cpus and two committed functions: the probes of the second one are
\* redirected to the ring buffers of the first
C19_Witness ==
  /\ pc = "enable"
  /\ Len(cpuset_cpus) = 2
  /\ CommittedFunctions = {1, 2}
  /\ Cardinality(DOMAIN redirect) = 6
  /\ Cardinality(uprobes_fds_) = 2


\* C20: the correlator is constructed before the deferred-events thread
\* starts; AddEvent and ProcessOldEvents are called by that thread only;
\* ProcessAllEvents is called by the thread of Run only when the
\* deferred-events thread has exited; so whenever one thread is at a call of
\* the correlator the other one is not and cannot get to one.
C20_CorrelatorUsedByOneThread ==
  [][/\ pc' = "process_all" => wpc' = "exited"
     /\ correlator' # correlator =>
          \/ pc = "init_processors" /\ wpc = "not_started"
          \/ /\ wpc = "process" /\ wpc' # wpc
             /\ pc' = pc /\ pc \notin {"process_all", "init_processors"}
          \/ pc = "process_all" /\ pc' = "disable" /\ wpc = "exited" /\ wpc' = wpc]_vars

\* the deferred-events thread has given two events to the correlator and has
\* exited; the thread of Run is about to flush the events still pending
C20_Witness ==
  /\ pc = "process_all"
  /\ wpc = "exited"
  /\ Len(correlator.added) = 2
  /\ correlator.pending # <<>>


CommittedFds == UNION {FdsOf(probeLog[f]) : f \in CommittedFunctions}

\* the keys of the map are the stream ids of the committed probe fds, each
\* with the function the fd was opened for
StreamIdMapComplete(map) ==
  /\ DOMAIN map = {perf_event_get_id(fd) : fd \in CommittedFds}
  /\ \A f \in CommittedFunctions :
       \A fd \in FdsOf(probeLog[f]) : map[perf_event_get_id(fd)] = f

\* C21: uprobes_ids_to_function_ holds the stream id of every committed
\* uprobes and uretprobes fd, with its function, and nothing else: a function
\* that is rolled back adds nothing; this is so before the first fd is enabled;
\* the map does not change after the probe loop; a sample read from a uprobes
\* ring buffer has a stream id of the map, and the event deferred for it
\* carries the function of that id; the lookup never fails.
C21_StreamIdMapComplete ==
  [][/\ StreamIdMapComplete(uprobes_ids_to_function_)'
     /\ enableOrder' # <<>> =>
          \A i \in 1..Len(enableOrder') :
            enableOrder'[i] \in CommittedFds' =>
              perf_event_get_id(enableOrder'[i]) \in DOMAIN uprobes_ids_to_function_'
     /\ pc \notin {"Reset", "context_switch", "init_processors", "probes"} =>
          UNCHANGED uprobes_ids_to_function_
     /\ pc = "probes" /\ Len(probeLog') > Len(probeLog) /\ ~LastFunction'.committed =>
          UNCHANGED uprobes_ids_to_function_
     /\ "out_of_range" \notin fault'
     /\ Handled("SAMPLE") /\ ring_buffers_[rbIdx].fd \in uprobes_fds_ =>
          LET rec == pollLog'.last
          IN /\ rec.stream_id \in DOMAIN uprobes_ids_to_function_
             /\ rec.pid = pid_ =>
                  /\ Len(deferLog') = Len(deferLog) + 1
                  /\ deferLog'[Len(deferLog')].function =
                       uprobes_ids_to_function_[rec.stream_id]]_vars

\* the first function was rolled back, the second one is committed on fd
\* numbers the first one had used, and a uretprobe sample of the second
\* function has been deferred
C21_Witness ==
  /\ Len(probeLog) = 2
  /\ ~probeLog[1].committed
  /\ DOMAIN probeLog[1].uprobes # {}
  /\ probeLog[2].committed
  /\ pc = "batch"
  /\ deferLog # <<>>
  /\ deferLog[1].kind = "uretprobe"
  /\ deferLog[1].function = 2


\* C22: a record whose header was read is dispatched in the next step of the
\* thread that executes Run,
\* and its handler makes exactly one ConsumeRecord or SkipRecord call on the
\* ring buffer it was read from, whatever the type, the pid, the fd or the
\* branch of ProcessSampleEvent, also when the handler then crashes; nothing is
\* removed from another ring buffer or without a header read, so every ring
\* buffer has had as many records removed as headers read; the CHECK of
\* ProcessSampleEvent never fails.
C22_EachRecordRemovedOnce ==
  [][/\ pc = "dispatch" /\ pc' # pc =>
          /\ Read(rbIdx)' = Read(rbIdx) + 1
          /\ Consumed(pollLog', rbIdx) = Consumed(pollLog, rbIdx) + 1
          /\ pollLog'.last.type \in RecordTypes
          /\ \A b \in 1..Len(ring_buffers_) :
               b # rbIdx => /\ Consumed(pollLog', b) = Consumed(pollLog, b)
                            /\ Read(b)' = Read(b)
     /\ pc # "dispatch" \/ pc' = pc => /\ pollLog'.consumed = pollLog.consumed
                                       /\ pollLog'.read = pollLog.read
     /\ pc' = "dispatch" /\ pc' # pc => pc = "batch" /\ recs' = recs - 1
     /\ \A b \in 1..Len(ring_buffers_') : Consumed(pollLog', b) = Read(b)'
     /\ "check_failed" \notin fault']_vars

\* probes and GPU tracepoints are on; one record was read from the ring buffer
\* of the probes and removed without an event being deferred, then an MMAP
\* record of another process was read from another ring buffer and skipped:
\* one record read and one removed in each
C22_Witness ==
  /\ cfg.trace_instrumented_functions_ /\ cfg.trace_gpu_driver_events
  /\ pc = "batch"
  /\ pollLog.last # <<>>
  /\ pollLog.last.type = "MMAP"
  /\ pollLog.last.pid = OtherPid
  /\ \E b \in 1..Len(ring_buffers_) :
       /\ b # rbIdx
       /\ ring_buffers_[b].fd \in uprobes_fds_
       /\ Read(b) = 1 /\ Consumed(pollLog, b) = 1
  /\ Read(rbIdx) = 1 /\ Consumed(pollLog, rbIdx) = 1
  /\ deferLog = <<>>
  /\ stats_.uprobes_count = 0


PreviousRun == runs[Len(runs)]

\* fds the members of the TracerThread refer to
MemberFds ==
  Range(tracing_fds_) \cup uprobes_fds_ \cup gpu_tracing_fds_ \cup RootFds

\* C23: Reset leaves tracing_fds_, ring_buffers_, uprobes_fds_,
\* uprobes_ids_to_function_, gpu_tracing_fds_ and deferred_events_ empty and
\* stop_deferred_thread_ false. In a Run that follows another Run on the same
\* TracerThread: after Reset every fd the members refer to was opened by this
\* Run; the shutdown disables and closes only fds that are open and were
\* opened by this Run, each closed once; a sample is classified by the probes
\* this Run has committed; stop_deferred_thread_ stays false until the
\* dispatcher loop of this Run has ended, and the deferred-events thread reads
\* it as true and exits only after that.
C23_ConsecutiveRunsIndependent ==
  [][/\ pc = "Reset" /\ pc' # pc =>
          /\ tracing_fds_' = <<>> /\ ring_buffers_' = <<>>
          /\ uprobes_fds_' = {} /\ gpu_tracing_fds_' = {}
          /\ uprobes_ids_to_function_' = <<>>
          /\ deferred_events_' = <<>>
          /\ ~stop_deferred_thread_'
     /\ runs # <<>> /\ pc' # "Reset" =>
          /\ MemberFds' \cap PreviousRun.open = {}
          /\ pc' # "done" => MemberFds' \subseteq openFds'
          /\ \A i \in (Len(shutdownLog) + 1)..Len(shutdownLog') :
               shutdownLog'[i].op \in {"disable", "close"} =>
                 shutdownLog'[i].fd \in openFds \ PreviousRun.open
          /\ \A fd \in FdUniverse : closeCount'[fd] <= 1
          /\ pc' \in (OpeningPcs \cup {"start_threads", "while", "for_ring_buffer",
                                      "batch", "dispatch", "stop"}) =>
               ~stop_deferred_thread_'
          /\ should_exit' \/ wpc' = "exited" =>
               stop_deferred_thread_' /\ pc' \in ({"join", "crashed"} \cup ShutdownPcs)
          /\ Handled("SAMPLE") /\ pollLog'.last.pid = pid_ =>
               LET fd == ring_buffers_[rbIdx].fd
                   rec == pollLog'.last
                   kind == IF fd \notin CommittedFds THEN "stack_sample"
                           ELSE IF rec.size = size_of_uretprobe THEN "uretprobe"
                           ELSE "uprobe"
               IN /\ Len(deferLog') = Len(deferLog) + 1
                  /\ deferLog'[Len(deferLog')].kind = kind
                  /\ deferLog'[Len(deferLog')].fd = fd]_vars

\* the second Run has returned: the first Run had a probe ring buffer on an fd
\* number and closed it; in the second Run the probes were rolled back, the
\* mmap/task source was opened on that fd number, a sample read from it was
\* deferred as a stack sample, the deferred-events thread has exited and the
\* fd is closed once
C23_Witness ==
  /\ runs # <<>>
  /\ pc = "done"
  /\ wpc = "exited"
  /\ probeLog # <<>>
  /\ CommittedFunctions = {}
  /\ deferLog # <<>>
  /\ deferLog[1].kind = "stack_sample"
  /\ deferLog[1].fd \in PreviousRun.uprobes_fds_
  /\ deferLog[1].fd \in Range(PreviousRun.tracing_fds_)
  /\ PreviousRun.stop_deferred_thread_
  /\ closeCount[deferLog[1].fd] = 1
  /\ openFds = {}

====
